---- MODULE Spec2Model ----
(***************************************************************************)
(* Text-to-SQL pipeline of the VikasAI backend: intent pre-filter,         *)
(* response classifier and extractor, safety gate and execution wrapper    *)
(* (backend/services/sql_service.py), and the HTTP handlers that call them *)
(* (backend/main.py, backend/routes/analytics.py).                         *)
(*                                                                         *)
(* Texts are TLA+ strings handled character by character, so that the      *)
(* regular expressions and substring tests of the code are modelled by     *)
(* what they do on the characters.                                         *)
(***************************************************************************)
EXTENDS Integers, Sequences, FiniteSets, TLC

VARIABLES
    pc,          \* position of the call being modelled: "start" or "done"
    sqlIn,       \* SQL text handed to execute_sql_query / the custom-query endpoint
    limit,       \* row limit handed to execute_sql_query
    message,     \* the user's chat message
    completion,  \* raw completion the model backend returns
    endpoint,    \* which operation the request is for
    ret,         \* value handed back: by generate_sql_query, by
                 \* extract_sql_from_response, or the endpoint's response
    schemaCalls, \* number of get_table_schema calls made by the request
    modelCalls,  \* number of generate_sql_with_model calls made by the request
    conns,       \* business-data-store connections opened by the request
    dbLog,       \* statements executed on the business-data store, in order
    result,      \* <<data, error, total_count>> returned by the execution wrapper
    chatStore,   \* roles of the messages the request saved in the conversation store
    requestModel, \* the model identifier the caller supplied
    history,     \* the conversation history the caller supplied
    modelLog,    \* the calls of generate_sql_with_model made by the request, in order
    dbErrors,    \* statements the business-data store failed to execute, in order
    connsClosed, \* business-data-store connections the request closed again
    schemaLog, \* what every get_table_schema call of the request did, in order
    selected_table_name, \* schema_service.selected_table_name, one value for the process
    excel_tables, \* table names recorded in the excel_tables metadata (committed)
    public_tables, \* tables of the application database's public schema (committed)
    request, \* the request served last
    served, \* number of table-selection requests served so far
    selectedBy, \* the session whose select_table request set the selection
    active_tokens, \* auth.active_tokens: token -> the record stored at login
    now, \* datetime.now(), in hours
    issued, \* number of tokens generate_token has produced
    tokenIssuedAt, \* history: token -> the time of the login that issued it
    loggedOut, \* history: issued tokens a later logout request named
    gcu, \* the get_current_user call running in a worker thread
    is_read_only, \* execute_sql_query's local is_read_only: the verdict of is_read_only_query
    schemaDb \* what the business-data store does during the request's get_table_schema call

vars == <<pc, sqlIn, limit, message, completion, endpoint, ret,
          schemaCalls, modelCalls, conns, dbLog, result, chatStore,
          requestModel, history, modelLog, dbErrors,
          connsClosed, schemaLog, selected_table_name,
          excel_tables, public_tables, request, served, selectedBy,
          active_tokens, now, issued, tokenIssuedAt, loggedOut, gcu,
          is_read_only,
          schemaDb>>

(***************************************************************************)
(* Python values                                                           *)
(***************************************************************************)
None == <<>>
Some(x) == <<x>>

(***************************************************************************)
(* Characters and Python str methods                                       *)
(***************************************************************************)
Ch(s, i) == SubSeq(s, i, i)

LowerLetters == "abcdefghijklmnopqrstuvwxyz"
UpperLetters == "ABCDEFGHIJKLMNOPQRSTUVWXYZ"
DigitChars == "0123456789"

CharsOf(s) == {Ch(s, i) : i \in 1..Len(s)}

UpperMap ==
    [c \in CharsOf(LowerLetters) |->
        Ch(UpperLetters, CHOOSE i \in 1..Len(LowerLetters) : Ch(LowerLetters, i) = c)]

LowerMap ==
    [c \in CharsOf(UpperLetters) |->
        Ch(LowerLetters, CHOOSE i \in 1..Len(UpperLetters) : Ch(UpperLetters, i) = c)]

WordChars == CharsOf(LowerLetters) \cup CharsOf(UpperLetters) \cup CharsOf(DigitChars) \cup {"_"}

SpaceChars == {" ", "\n", "\t", "\r"}

\* str.upper and str.lower, character by character (the text is split in halves
\* to keep the evaluation shallow)
RECURSIVE Upper(_)
Upper(s) ==
    IF Len(s) = 0 THEN ""
    ELSE IF Len(s) = 1 THEN (IF s \in DOMAIN UpperMap THEN UpperMap[s] ELSE s)
    ELSE Upper(SubSeq(s, 1, Len(s) \div 2)) \o Upper(SubSeq(s, Len(s) \div 2 + 1, Len(s)))

RECURSIVE Lower(_)
Lower(s) ==
    IF Len(s) = 0 THEN ""
    ELSE IF Len(s) = 1 THEN (IF s \in DOMAIN LowerMap THEN LowerMap[s] ELSE s)
    ELSE Lower(SubSeq(s, 1, Len(s) \div 2)) \o Lower(SubSeq(s, Len(s) \div 2 + 1, Len(s)))

\* str.lstrip, str.rstrip, str.strip
LStrip(s) ==
    LET keep == {i \in 1..Len(s) : Ch(s, i) \notin SpaceChars}
    IN  IF keep = {} THEN "" ELSE SubSeq(s, CHOOSE i \in keep : \A j \in keep : i <= j, Len(s))

RStrip(s) ==
    LET keep == {i \in 1..Len(s) : Ch(s, i) \notin SpaceChars}
    IN  IF keep = {} THEN "" ELSE SubSeq(s, 1, CHOOSE i \in keep : \A j \in keep : i >= j)

Strip(s) == RStrip(LStrip(s))

\* s[i-1:] of Python, for a 1-based i
From(s, i) == SubSeq(s, i, Len(s))

\* the text p stands in s at position i
MatchAt(s, p, i) == i >= 1 /\ i + Len(p) - 1 <= Len(s) /\ SubSeq(s, i, i + Len(p) - 1) = p

StartsWith(s, p) == MatchAt(s, p, 1)

EndsWith(s, p) == MatchAt(s, p, Len(s) - Len(p) + 1)

\* str.find, 1-based; 0 stands for Python's -1
Find(s, p) ==
    LET hits == {i \in 1..Len(s) : MatchAt(s, p, i)}
    IN  IF hits = {} THEN 0 ELSE CHOOSE i \in hits : \A j \in hits : i <= j

\* p in s
Contains(s, p) == \E i \in 1..Len(s) : MatchAt(s, p, i)

\* s.count(c) for a one-character c
CountChar(s, c) == Cardinality({i \in 1..Len(s) : Ch(s, i) = c})

\* s.replace(old, new)
RECURSIVE Replace(_, _, _)
Replace(s, old, new) ==
    LET i == Find(s, old)
    IN  IF i = 0 THEN s
        ELSE SubSeq(s, 1, i - 1) \o new \o Replace(From(s, i + Len(old)), old, new)

(***************************************************************************)
(* Regular-expression pieces                                               *)
(***************************************************************************)
IsWordAt(s, i) == i >= 1 /\ i <= Len(s) /\ Ch(s, i) \in WordChars

\* \b between the characters i-1 and i
WordBoundary(s, i) == IsWordAt(s, i - 1) # IsWordAt(s, i)

\* \bp\b matches at position i (p begins and ends with a word character or not,
\* the boundaries are tested as the regex engine tests them)
WholeWordAt(s, p, i) ==
    MatchAt(s, p, i) /\ WordBoundary(s, i) /\ WordBoundary(s, i + Len(p))

\* re.search(r'\b' + re.escape(p) + r'\b', s)
SearchWholeWord(s, p) == \E i \in 1..Len(s) : WholeWordAt(s, p, i)

\* first position at or after i that does not hold a character of cs
\* (Len(s) + 1 when the run reaches the end): where a greedy cs* stops
SpanEnd(s, i, cs) ==
    CHOOSE j \in i..(Len(s) + 1) :
        /\ j = Len(s) + 1 \/ Ch(s, j) \notin cs
        /\ \A k \in i..(j - 1) : Ch(s, k) \in cs

(***************************************************************************)
(* Safety gate: is_read_only_query                                         *)
(***************************************************************************)
\* re.sub(r'--.*?$', '', s, flags=re.MULTILINE): each match runs from a -- to
\* the end of its line, the newline is kept
RECURSIVE StripLineComments(_)
StripLineComments(s) ==
    LET i == Find(s, "--")
    IN  IF i = 0 THEN s
        ELSE LET rest == From(s, i + 2)
                 e == Find(rest, "\n")
             IN  SubSeq(s, 1, i - 1) \o (IF e = 0 THEN "" ELSE StripLineComments(From(rest, e)))

\* re.sub(r'/\*.*?\*/', '', s, flags=re.DOTALL): each match runs from a /* to
\* the first */ after it; a /* that is never closed is left in place
RECURSIVE StripBlockComments(_)
StripBlockComments(s) ==
    LET i == Find(s, "/*")
    IN  IF i = 0 THEN s
        ELSE LET rest == From(s, i + 2)
                 e == Find(rest, "*/")
             IN  IF e = 0 THEN s
                 ELSE SubSeq(s, 1, i - 1) \o StripBlockComments(From(rest, e + 2))

dangerous_keywords ==
    << "DELETE", "TRUNCATE", "DROP", "INSERT", "UPDATE", "ALTER",
       "CREATE TABLE", "CREATE INDEX", "CREATE VIEW", "CREATE PROCEDURE", "CREATE FUNCTION",
       "EXEC", "EXECUTE", "SP_", "XP_", "GRANT", "REVOKE",
       "MERGE", "BULK INSERT", "BACKUP", "RESTORE", "DBCC" >>

\* index of the first deny-list keyword found as a whole word, 0 when none is
FirstDangerous(text) ==
    LET hits == {k \in 1..Len(dangerous_keywords) : SearchWholeWord(text, dangerous_keywords[k])}
    IN  IF hits = {} THEN 0 ELSE CHOOSE k \in hits : \A h \in hits : k <= h

\* the start check of the gate, on the trimmed upper-cased text
GateStartOk(sql_upper) == StartsWith(sql_upper, "SELECT")

\* the comment removal of the gate
GateStripComments(sql_query) == StripBlockComments(StripLineComments(sql_query))

is_read_only_query(sql_query) ==
    LET sql_upper == Upper(Strip(sql_query))
        sql_no_comments_upper == Upper(GateStripComments(sql_query))
        k == FirstDangerous(sql_no_comments_upper)
    IN  IF ~GateStartOk(sql_upper)
        THEN [ok |-> FALSE,
              reason |-> Some("Only SELECT queries are allowed. You have read-only access to the database.")]
        ELSE IF k # 0
        THEN [ok |-> FALSE,
              reason |-> Some("Write operations like '" \o dangerous_keywords[k]
                              \o "' are not allowed. You have read-only access to the VikasAI database.")]
        ELSE IF Contains(sql_query, ";") /\ CountChar(sql_query, ";") > 1
        THEN [ok |-> FALSE,
              reason |-> Some("Multiple statements are not allowed. You have read-only access to the database.")]
        ELSE [ok |-> TRUE, reason |-> None]

(***************************************************************************)
(* Execution wrapper: execute_sql_query                                    *)
(***************************************************************************)
\* re.sub(r'\bSELECT\b', repl, s, count=1, flags=re.IGNORECASE)
SubFirstSelect(s, repl) ==
    LET u == Upper(s)
        hits == {i \in 1..Len(s) : WholeWordAt(u, "SELECT", i)}
    IN  IF hits = {} THEN s
        ELSE LET i == CHOOSE h \in hits : \A g \in hits : h <= g
             IN  SubSeq(s, 1, i - 1) \o repl \o From(s, i + 6)

\* the number a run of decimal digits writes
RECURSIVE DigitsValue(_)
DigitsValue(digits) ==
    IF digits = "" THEN 0
    ELSE 10 * DigitsValue(SubSeq(digits, 1, Len(digits) - 1))
         + (Find(DigitChars, SubSeq(digits, Len(digits), Len(digits))) - 1)

\* SQL Server: the TOP clause of a statement stands right after its first
\* SELECT; i is the position of that SELECT and u is s in upper case. The
\* value is the row limit of the clause, None when there is no such clause
TopLimitAt(s, u, i) ==
    LET a == SpanEnd(s, i + 6, SpaceChars)
        b == SpanEnd(s, a + 3, SpaceChars)
        c == SpanEnd(s, b, CharsOf(DigitChars))
    IN  IF a > i + 6 /\ MatchAt(u, "TOP", a) /\ b > a + 3 /\ c > b
        THEN Some(DigitsValue(SubSeq(s, b, c - 1))) ELSE None

\* SQL Server: the row limit the statement carries in a TOP clause
TopLimit(statement) ==
    LET u == Upper(statement)
        hits == {i \in 1..Len(statement) : WholeWordAt(u, "SELECT", i)}
    IN  IF hits = {} THEN None
        ELSE TopLimitAt(statement, u, CHOOSE h \in hits : \A g \in hits : h <= g)

\* SQL Server: the rows a statement yields when table_rows rows satisfy it
RowsSelected(statement, table_rows) ==
    LET top == TopLimit(statement)
    IN  IF top = None \/ top[1] >= table_rows THEN table_rows ELSE top[1]

\* how many rows of the store satisfy the statement of a request
TableRows == {2, 1500}

\* what the business-data store does during one call: whether the connection
\* opens, whether the COUNT wrapper and the primary statement succeed, and how
\* many rows satisfy the statement
DbOutcomes ==
    {[connect |-> FALSE, countOk |-> FALSE, primaryOk |-> FALSE, rows |-> 0]}
    \cup [connect : {TRUE}, countOk : BOOLEAN, primaryOk : BOOLEAN, rows : TableRows]

\* the except clause handing the exception text back as it is
ExecError_Unprefixed == Some("database error")

\* the error outcome of the except clause of execute_sql_query
ExecError == Some("SQL execution error: database error")

\* the statements execute_sql_query builds for an accepted text
ExecPlan(sql_query, lim) ==
    LET query == Replace(sql_query, "ILIKE", "LIKE")
        has_top == Contains(Upper(query), "TOP")
    IN  [query |-> query,
         count_query |-> "SELECT COUNT(*) as total FROM (" \o query \o ") as subquery",
         limited_query |->
            IF ~has_top /\ lim > 0
            THEN SubFirstSelect(query, "SELECT TOP " \o ToString(lim))
            ELSE query]

\* execute_sql_query with the connection opened before the text is validated
ExecRun_ConnectFirst(is_safe, connected, error_msg, onSafe) ==
    IF ~connected THEN [opened |-> 0, closed |-> 0, log |-> <<>>, failed |-> <<>>, out |-> <<None, ExecError, None>>]
    ELSE IF ~is_safe THEN [opened |-> 1, closed |-> 0, log |-> <<>>, failed |-> <<>>, out |-> <<None, error_msg, None>>]
    ELSE onSafe

\* the order of validation and connection in execute_sql_query
ExecRun(is_safe, connected, error_msg, onSafe) ==
    IF ~is_safe THEN [opened |-> 0, closed |-> 0, log |-> <<>>, failed |-> <<>>, out |-> <<None, error_msg, None>>]
    ELSE IF ~connected THEN [opened |-> 0, closed |-> 0, log |-> <<>>, failed |-> <<>>, out |-> <<None, ExecError, None>>]
    ELSE onSafe

\* execute_sql_query giving up when the COUNT wrapper fails
ExecOutcome_CountFatal(verdict, plan, db) ==
    ExecRun(verdict.ok, db.connect, verdict.reason,
        IF ~db.countOk
        THEN [opened |-> 1, closed |-> 0, log |-> <<plan.count_query>>,
              failed |-> <<plan.count_query>>, out |-> <<None, ExecError, None>>]
        ELSE IF ~db.primaryOk
        THEN [opened |-> 1, closed |-> 0, log |-> <<plan.count_query, plan.limited_query>>,
              failed |-> <<plan.limited_query>>, out |-> <<None, ExecError, None>>]
        ELSE [opened |-> 1, closed |-> 1, log |-> <<plan.count_query, plan.limited_query>>,
              failed |-> <<>>,
              out |-> <<Some(RowsSelected(plan.limited_query, db.rows)), None,
                        Some(RowsSelected(plan.query, db.rows))>>])

\* execute_sql_query, given the verdict of its is_read_only_query call and the
\* statements it builds: connections opened and closed, statements executed
\* in order, and the returned triple (data is the number of rows)
ExecOutcome(verdict, plan, db) ==
    ExecRun(verdict.ok, db.connect, verdict.reason,
        LET total_count ==
                IF db.countOk THEN Some(RowsSelected(plan.query, db.rows)) ELSE None
            log == <<plan.count_query, plan.limited_query>>
            count_failed == IF db.countOk THEN <<>> ELSE <<plan.count_query>>
        IN  IF ~db.primaryOk
            THEN [opened |-> 1, closed |-> 0, log |-> log,
                  failed |-> count_failed \o <<plan.limited_query>>,
                  out |-> <<None, ExecError, None>>]
            ELSE [opened |-> 1, closed |-> 1, log |-> log, failed |-> count_failed,
                  out |-> <<Some(RowsSelected(plan.limited_query, db.rows)), None, total_count>>])

execute_sql_query(sql_query, lim, db) ==
    ExecOutcome(is_read_only_query(sql_query), ExecPlan(sql_query, lim), db)

\* every way one call of execute_sql_query on sql_query can go
ExecCalls(sql_query, lims) ==
    LET verdict == is_read_only_query(sql_query)
    IN  UNION { LET plan == ExecPlan(sql_query, lim)
                IN  {[lim |-> lim, is_read_only |-> verdict.ok,
                      run |-> ExecOutcome(verdict, plan, db)] : db \in DbOutcomes}
              : lim \in lims }

(***************************************************************************)
(* More regular-expression and list helpers                                *)
(***************************************************************************)
\* any(p in s for p in ps)
ContainsAny(s, ps) == \E p \in ps : Contains(s, p)

\* s.startswith(tuple(ps))
StartsWithAny(s, ps) == \E p \in ps : StartsWith(s, p)

\* \bw1\s+w2\b matches at position i
TwoWordsAt(s, w1, w2, i) ==
    /\ MatchAt(s, w1, i)
    /\ WordBoundary(s, i)
    /\ LET j == SpanEnd(s, i + Len(w1), SpaceChars)
       IN  /\ j > i + Len(w1)
           /\ MatchAt(s, w2, j)
           /\ WordBoundary(s, j + Len(w2))

\* re.search(r'\bw1\s+w2\b', s)
SearchTwoWords(s, w1, w2) == \E i \in 1..Len(s) : TwoWordsAt(s, w1, w2, i)

\* re.search(r'\bw1\s+\w+\s+w2\b', s)
SearchWordIdentWord(s, w1, w2) ==
    \E i \in 1..Len(s) :
        /\ MatchAt(s, w1, i)
        /\ WordBoundary(s, i)
        /\ LET a == SpanEnd(s, i + Len(w1), SpaceChars)
               b == SpanEnd(s, a, WordChars)
               c == SpanEnd(s, b, SpaceChars)
           IN  /\ a > i + Len(w1)
               /\ b > a
               /\ c > b
               /\ MatchAt(s, w2, c)
               /\ WordBoundary(s, c + Len(w2))

(***************************************************************************)
(* Intent pre-filter: contains_write_operation, is_valid_database_query    *)
(***************************************************************************)
\* sql_write_patterns, in the order of the list: <<first word, second word>>,
\* the second entry being \bupdate\s+\w+\s+set\b
sql_write_patterns ==
    << <<"delete", "from">>, <<"update", "set">>, <<"insert", "into">>,
       <<"truncate", "table">>, <<"drop", "table">>, <<"drop", "database">>,
       <<"alter", "table">> >>

\* re.search(sql_write_patterns[k], query_lower)
WritePatternMatches(query_lower, k) ==
    IF k = 2
    THEN SearchWordIdentWord(query_lower, sql_write_patterns[k][1], sql_write_patterns[k][2])
    ELSE SearchTwoWords(query_lower, sql_write_patterns[k][1], sql_write_patterns[k][2])

\* the loop over sql_write_patterns
AnyWritePattern_Keyword(query_lower) ==
    \E k \in 1..Len(sql_write_patterns) :
        SearchWholeWord(query_lower, sql_write_patterns[k][1])

AnyWritePattern(query_lower) ==
    \E k \in 1..Len(sql_write_patterns) : WritePatternMatches(query_lower, k)

\* the special handling of a message that starts with 'execute'
ExecuteRule(query_lower) ==
    /\ StartsWith(query_lower, "execute")
    /\ ~(Contains(query_lower, "select")
         /\ (Contains(query_lower, "this query") \/ Contains(query_lower, "query")))
    /\ (Contains(query_lower, "procedure") \/ Contains(query_lower, "exec"))

\* the first element of the pair contains_write_operation returns
contains_write_operation_BareKeyword(user_query) ==
    IF user_query = "" THEN FALSE
    ELSE LET query_lower == Strip(Lower(user_query))
         IN  \/ \E w \in {"delete", "update", "insert", "truncate", "drop", "alter"} :
                    SearchWholeWord(query_lower, w)
             \/ ExecuteRule(query_lower)

contains_write_operation(user_query) ==
    IF user_query = "" THEN FALSE
    ELSE LET query_lower == Strip(Lower(user_query))
         IN  AnyWritePattern(query_lower) \/ ExecuteRule(query_lower)

non_query_patterns ==
    {"hello", "hi", "hey", "thanks", "thank you", "bye", "goodbye",
     "gg", "lol", "haha", "ok", "okay"}

is_valid_database_query(user_query) ==
    IF user_query = "" \/ Len(Strip(user_query)) < 2 THEN FALSE
    ELSE Strip(Lower(user_query)) \notin non_query_patterns

(***************************************************************************)
(* Extractor: extract_sql_from_response                                    *)
(***************************************************************************)
\* s.split("\n")
RECURSIVE SplitLines(_)
SplitLines(s) ==
    LET i == Find(s, "\n")
    IN  IF i = 0 THEN <<s>> ELSE <<SubSeq(s, 1, i - 1)>> \o SplitLines(From(s, i + 1))

\* " ".join(lines)
RECURSIVE JoinSpace(_)
JoinSpace(lines) ==
    IF lines = <<>> THEN ""
    ELSE IF Len(lines) = 1 THEN lines[1]
    ELSE lines[1] \o " " \o JoinSpace(Tail(lines))

explanatory_prefixes ==
    << "here is the sql query:", "here's the sql:", "the sql query is:",
       "sql query:", "query:", "sql:" >>

\* the loop over explanatory_prefixes, from the k-th prefix on
RECURSIVE RemovePrefixes(_, _)
RemovePrefixes(response, k) ==
    IF k > Len(explanatory_prefixes) THEN response
    ELSE IF StartsWith(Lower(response), explanatory_prefixes[k])
         THEN RemovePrefixes(Strip(From(response, Len(explanatory_prefixes[k]) + 1)), k + 1)
    ELSE RemovePrefixes(response, k + 1)

\* the phrases at which the line scan stops
ExplanationStarts ==
    {"there are", "the query", "this will", "note:", "warning:", "error:", "the result",
     "this query", "allowed", "permitted", "read-only"}

\* the keywords and symbols that make a line look like SQL
SqlLineKeywords ==
    {"WITH", "SELECT", "FROM", "WHERE", "JOIN", "ORDER", "GROUP", "HAVING", "COUNT", "SUM",
     "AVG", "MAX", "MIN", "TOP", "DISTINCT", "AS", "ON", "AND", "OR", "IN", "LIKE",
     "BETWEEN", "IS", "NULL", "[", "]", "(", ")", ";", ",", "=", "<", ">", "!"}

\* the line does not stop the scan for lack of SQL keywords
LineLooksLikeSql(line_stripped, sql_lines) ==
    ContainsAny(Upper(line_stripped), SqlLineKeywords) \/ Len(sql_lines) = 0

\* the for loop over lines, from line k on, with the lines kept so far
RECURSIVE ScanLines(_, _, _)
ScanLines(lines, k, sql_lines) ==
    IF k > Len(lines) THEN sql_lines
    ELSE LET line_stripped == Strip(lines[k])
         IN  IF line_stripped = "" THEN ScanLines(lines, k + 1, sql_lines)
             ELSE IF StartsWithAny(Lower(line_stripped), ExplanationStarts) THEN sql_lines
             ELSE IF ~LineLooksLikeSql(line_stripped, sql_lines) THEN sql_lines
             ELSE ScanLines(lines, k + 1, Append(sql_lines, lines[k]))

\* where the statement ends: the first semicolon, else the line scan
CutStatement(sql_part) ==
    LET semicolon_index == Find(sql_part, ";")
    IN  IF semicolon_index > 1 THEN SubSeq(sql_part, 1, semicolon_index)
        ELSE Strip(JoinSpace(ScanLines(SplitLines(sql_part), 1, <<>>)))

\* the final check that the extracted part starts with WITH or SELECT
EnsureStatement(sql_part) ==
    LET u == Upper(sql_part)
        with_pos == Find(u, "WITH")
        select_pos == Find(u, "SELECT")
    IN  IF StartsWith(u, "WITH") \/ StartsWith(u, "SELECT") THEN sql_part
        ELSE IF with_pos > 0 /\ (select_pos = 0 \/ with_pos < select_pos) THEN From(sql_part, with_pos)
        ELSE IF select_pos > 0 THEN From(sql_part, select_pos)
        ELSE ""

\* lines 41-104: the statement located in the cleaned response, response_upper
\* being the response in upper case
LocateStatement(response, response_upper) ==
    LET has_with == Contains(response_upper, "WITH")
        has_select == Contains(response_upper, "SELECT")
        with_index == Find(response_upper, "WITH")
        select_index == Find(response_upper, "SELECT")
        sql_part ==
            IF has_with
            THEN (IF has_select
                  THEN (IF with_index < select_index THEN From(response, with_index)
                        ELSE From(response, select_index))
                  ELSE From(response, with_index))
            ELSE From(response, select_index)
    IN  IF has_with \/ has_select THEN EnsureStatement(CutStatement(sql_part))
        ELSE response

\* lines 41-104, for the response left by the removal of the prefixes
ExtractFromCleaned(response) == LocateStatement(response, Upper(response))

extract_sql_from_response(raw) ==
    IF raw = "" THEN "" ELSE ExtractFromCleaned(RemovePrefixes(Strip(raw), 1))

(***************************************************************************)
(* Normalizer: make_case_insensitive                                       *)
(***************************************************************************)
QuoteChars == {"'", "\""}

\* first position at or after i that holds a character of cs (Len(s) + 1 when
\* there is none): where a greedy [^cs]* stops
SpanUntil(s, i, cs) ==
    CHOOSE j \in i..(Len(s) + 1) :
        /\ j = Len(s) + 1 \/ Ch(s, j) \in cs
        /\ \A k \in i..(j - 1) : Ch(s, k) \notin cs

\* smallest element of a non-empty set of positions
MinOf(S) == CHOOSE i \in S : \A j \in S : i <= j

NoMatch == [found |-> FALSE]

\* the tail (['"])([^'"]+)\2 of pattern1 and pattern2, the quote standing at c
QuotedAt(s, c) ==
    /\ c <= Len(s)
    /\ Ch(s, c) \in QuoteChars
    /\ LET d == SpanUntil(s, c + 1, QuoteChars)
       IN  d > c + 1 /\ d <= Len(s) /\ Ch(s, d) = Ch(s, c)

\* the match of pattern1 = (\w+)\s*=\s*(['"])([^'"]+)\2 that starts at i
EqualsAt(s, i) ==
    LET a == SpanEnd(s, i, WordChars)
        b == SpanEnd(s, a, SpaceChars)
        c == SpanEnd(s, b + 1, SpaceChars)
        d == SpanUntil(s, c + 1, QuoteChars)
    IN  IF a > i /\ b <= Len(s) /\ Ch(s, b) = "=" /\ QuotedAt(s, c)
        THEN [found |-> TRUE, start |-> i, end |-> d + 1, column |-> SubSeq(s, i, a - 1),
              quote |-> Ch(s, c), value |-> SubSeq(s, c + 1, d - 1)]
        ELSE NoMatch

\* the match of pattern2 = (\w+)\s+LIKE\s+(['"])([^'"]+)\2 that starts at i,
\* u being s in upper case
LikeAt(s, u, i) ==
    LET a == SpanEnd(s, i, WordChars)
        b == SpanEnd(s, a, SpaceChars)
        c == SpanEnd(s, b + 4, SpaceChars)
        d == SpanUntil(s, c + 1, QuoteChars)
    IN  IF a > i /\ b > a /\ MatchAt(u, "LIKE", b) /\ c > b + 4 /\ QuotedAt(s, c)
        THEN [found |-> TRUE, start |-> i, end |-> d + 1, column |-> SubSeq(s, i, a - 1),
              quote |-> Ch(s, c), value |-> SubSeq(s, c + 1, d - 1)]
        ELSE NoMatch

\* the match of pattern3 = (\w+)\s+IN\s+\((['"])([^\)]+)\2\) that starts at i,
\* u being s in upper case
InAt(s, u, i) ==
    LET a == SpanEnd(s, i, WordChars)
        b == SpanEnd(s, a, SpaceChars)
        c == SpanEnd(s, b + 2, SpaceChars)
        e == SpanUntil(s, c + 2, {")"})
    IN  IF /\ a > i /\ b > a /\ MatchAt(u, "IN", b) /\ c > b + 2
           /\ c + 1 <= Len(s) /\ Ch(s, c) = "(" /\ Ch(s, c + 1) \in QuoteChars
           /\ e <= Len(s) /\ e - 1 > c + 2 /\ Ch(s, e - 1) = Ch(s, c + 1)
        THEN [found |-> TRUE, start |-> i, end |-> e + 1, column |-> SubSeq(s, i, a - 1),
              quote |-> Ch(s, c + 1), value |-> SubSeq(s, c + 2, e - 2)]
        ELSE NoMatch

\* value.replace('.', '').replace('-', '').isdigit()
IsNumericLiteral(value) ==
    LET v == Replace(Replace(value, ".", ""), "-", "")
    IN  v # "" /\ \A i \in 1..Len(v) : Ch(v, i) \in CharsOf(DigitChars)

SubqueryKeywords == {"SELECT", "FROM", "WHERE", "COUNT", "SUM", "AVG", "MAX", "MIN", "NULL"}

\* the column is already wrapped somewhere in the WHERE clause
AlreadyWrapped(where_clause, column) ==
    \/ Contains(where_clause, "LOWER(" \o column \o ")")
    \/ Contains(where_clause, "UPPER(" \o column \o ")")

\* the rewritten text of an equality whose literal is ordinary text
LoweredEquals(column, quote, value) ==
    "LOWER(" \o column \o ") = LOWER(" \o quote \o value \o quote \o ")"

replace_equals(where_clause, full_match, m) ==
    IF IsNumericLiteral(m.value) THEN full_match
    ELSE IF ContainsAny(Upper(m.value), SubqueryKeywords) THEN full_match
    ELSE IF AlreadyWrapped(where_clause, m.column) THEN full_match
    ELSE LoweredEquals(m.column, m.quote, m.value)

replace_like(where_clause, full_match, m) ==
    IF AlreadyWrapped(where_clause, m.column) THEN full_match
    ELSE IF ~Contains(m.value, "%") /\ ~Contains(m.value, "_")
         THEN m.column \o " LIKE " \o m.quote \o "%" \o m.value \o "%" \o m.quote
    ELSE m.column \o " LIKE " \o m.quote \o m.value \o m.quote

\* value.split(',')
RECURSIVE SplitComma(_)
SplitComma(s) ==
    LET i == Find(s, ",")
    IN  IF i = 0 THEN <<s>> ELSE <<SubSeq(s, 1, i - 1)>> \o SplitComma(From(s, i + 1))

\* v.strip(quote)
StripQuote(v, quote) ==
    LET keep == {i \in 1..Len(v) : Ch(v, i) # quote}
    IN  IF keep = {} THEN ""
        ELSE SubSeq(v, MinOf(keep), CHOOSE i \in keep : \A j \in keep : i >= j)

\* how replace_in writes one listed value
InListItem(quote, v) == quote \o v \o quote

\* ', '.join(...) over the listed values
RECURSIVE JoinInList(_, _)
JoinInList(values, quote) ==
    IF values = <<>> THEN ""
    ELSE IF Len(values) = 1 THEN InListItem(quote, StripQuote(Strip(values[1]), quote))
    ELSE InListItem(quote, StripQuote(Strip(values[1]), quote)) \o ", "
         \o JoinInList(Tail(values), quote)

replace_in(where_clause, full_match, m) ==
    "LOWER(" \o m.column \o ") IN (" \o JoinInList(SplitComma(m.value), m.quote) \o ")"

\* the first match of the k-th pattern at or after pos (k = 1: pattern1,
\* k = 2: pattern2, k = 3: pattern3)
PatternAt(s, u, k, i) ==
    IF k = 1 THEN EqualsAt(s, i) ELSE IF k = 2 THEN LikeAt(s, u, i) ELSE InAt(s, u, i)

\* the leftmost match among the positions where the k-th pattern matches
LeftmostMatch(s, u, k, hits) ==
    IF hits = {} THEN NoMatch ELSE PatternAt(s, u, k, MinOf(hits))

FirstPatternMatch(s, u, k, pos) ==
    LeftmostMatch(s, u, k, {i \in pos..Len(s) : PatternAt(s, u, k, i).found})

Replacement(where_clause, k, full_match, m) ==
    IF k = 1 THEN replace_equals(where_clause, full_match, m)
    ELSE IF k = 2 THEN replace_like(where_clause, full_match, m)
    ELSE replace_in(where_clause, full_match, m)

\* re.sub(pattern_k, replace_k, s) from position pos on, u being s in upper
\* case
RECURSIVE SubPattern(_, _, _, _, _)

\* the text from pos on, m being the first match at or after pos
SubMatch(where_clause, s, u, k, pos, m) ==
    IF ~m.found THEN From(s, pos)
    ELSE SubSeq(s, pos, m.start - 1)
         \o Replacement(where_clause, k, SubSeq(s, m.start, m.end - 1), m)
         \o SubPattern(where_clause, s, u, k, m.end)

SubPattern(where_clause, s, u, k, pos) ==
    SubMatch(where_clause, s, u, k, pos, FirstPatternMatch(s, u, k, pos))

\* re.sub(pattern_k, replace_k, s) over the whole of s
SubAll(where_clause, s, k) == SubPattern(where_clause, s, Upper(s), k, 1)

\* \b(ORDER\s+BY|GROUP\s+BY|HAVING|UNION|INTERSECT|EXCEPT)\b matches at i
WhereEndAt(u, i) ==
    \/ TwoWordsAt(u, "ORDER", "BY", i)
    \/ TwoWordsAt(u, "GROUP", "BY", i)
    \/ \E w \in {"HAVING", "UNION", "INTERSECT", "EXCEPT"} : WholeWordAt(u, w, i)

\* the rewriting of the WHERE clause by the three substitutions, in order
RewriteWhere(where_clause) ==
    SubAll(where_clause, SubAll(where_clause, SubAll(where_clause, where_clause, 1), 2), 3)

\* lines 122-188: the statement put together again, end_hits being the
\* positions of where_clause_and_after at which a clause that ends the WHERE
\* clause starts
RewriteClause(before_where, where_clause_and_after, end_hits) ==
    LET where_clause ==
            IF end_hits = {} THEN where_clause_and_after
            ELSE SubSeq(where_clause_and_after, 1, MinOf(end_hits) - 1)
        after_where ==
            IF end_hits = {} THEN "" ELSE From(where_clause_and_after, MinOf(end_hits))
    IN  before_where \o RewriteWhere(where_clause) \o after_where

\* lines 122-127: the search for the end of the WHERE clause, u being
\* where_clause_and_after in upper case
SplitAfterWhere(before_where, where_clause_and_after, u) ==
    RewriteClause(before_where, where_clause_and_after, {i \in 1..Len(u) : WhereEndAt(u, i)})

\* lines 119-188, w being the position of the first WHERE
SplitAtWhere(sql_query, w) ==
    SplitAfterWhere(SubSeq(sql_query, 1, w - 1), From(sql_query, w), Upper(From(sql_query, w)))

\* lines 110-188, sql_upper being the statement in upper case and where_hits
\* the positions of the word WHERE
RewriteStatement(sql_query, sql_upper, where_hits) ==
    IF Contains(sql_upper, "LOWER(") /\ Contains(sql_upper, "ILIKE") THEN sql_query
    ELSE IF where_hits = {} THEN sql_query
    ELSE SplitAtWhere(sql_query, MinOf(where_hits))

make_case_insensitive(sql_query) ==
    LET sql_upper == Upper(sql_query)
    IN  RewriteStatement(sql_query, sql_upper,
                         {i \in 1..Len(sql_query) : WholeWordAt(sql_upper, "WHERE", i)})

(***************************************************************************)
(* Generator: generate_sql_query                                           *)
(* The character ~ stands for the backtick of a Markdown code fence.       *)
(***************************************************************************)
\* what generate_sql_query hands back: a returned text, a returned None, or
\* an exception carrying a message
Returned(text) == [raised |-> FALSE, value |-> Some(text)]
ReturnedNone == [raised |-> FALSE, value |-> None]
Raised(msg) == [raised |-> TRUE, value |-> Some("Error generating SQL: " \o msg)]

ResponseSqlKeywords ==
    {"SELECT", "FROM", "WHERE", "INSERT", "UPDATE", "DELETE", "CREATE", "ALTER", "DROP", "TRUNCATE"}

clarification_phrases ==
    {"which table", "which table's", "please specify", "available tables",
     "what would you like", "could you please", "please provide"}

text_answer_indicators ==
    {"excel", "formula", "=", "average", "sum", "count", "today()", "if(", "vlookup",
     "to calculate", "you can use", "here is", "the following", "this formula"}

text_answer_indicators_after ==
    {"excel", "formula", "average", "sum", "count", "today()", "if(", "vlookup",
     "to calculate", "you can use", "here is", "the following", "this formula",
     "~~~excel", "=average", "=sum", "=count"}

ExtractedSqlKeywords == {"SELECT", "FROM", "WHERE", "INSERT", "UPDATE", "DELETE"}

StatementKeywords == {"WITH", "SELECT", "FROM"}

\* the extracted text with a leading ~~~sql or ~~~ and a trailing ~~~ removed
StripFences(sql_query) ==
    LET a == IF StartsWith(sql_query, "~~~sql") THEN From(sql_query, 7) ELSE sql_query
        b == IF StartsWith(a, "~~~") THEN From(a, 4) ELSE a
        c == IF EndsWith(b, "~~~") THEN SubSeq(b, 1, Len(b) - 3) ELSE b
    IN  Strip(c)

\* (\w+)\s+AS\s*\( matches at i, u being s in upper case; the value is the
\* position after the match, 0 when there is no match
CteAt(s, u, i) ==
    LET a == SpanEnd(s, i, WordChars)
        b == SpanEnd(s, a, SpaceChars)
        c == SpanEnd(s, b + 2, SpaceChars)
    IN  IF a > i /\ b > a /\ MatchAt(u, "AS", b) /\ c <= Len(s) /\ Ch(s, c) = "("
        THEN c + 1 ELSE 0

\* len(re.findall(cte_pattern, s)) from position pos on
RECURSIVE CountCte(_, _, _)
CountCte(s, u, pos) ==
    LET hits == {i \in pos..Len(s) : CteAt(s, u, i) # 0}
    IN  IF hits = {} THEN 0 ELSE 1 + CountCte(s, u, CteAt(s, u, MinOf(hits)))

RepairCte(sql_query) ==
    IF /\ Contains(Upper(sql_query), " AS (")
       /\ ~StartsWith(Upper(sql_query), "WITH")
       /\ CountCte(sql_query, Upper(sql_query), 1) > 1
    THEN "WITH " \o LStrip(sql_query)
    ELSE sql_query

\* \bSELECT\s+TOP\s+100\b matches at i, u being s in upper case; the value
\* is the position after the match, 0 when there is no match
SelectTop100At(s, u, i) ==
    LET b == SpanEnd(s, i + 6, SpaceChars)
        c == SpanEnd(s, b + 3, SpaceChars)
    IN  IF /\ WordBoundary(s, i) /\ MatchAt(u, "SELECT", i) /\ b > i + 6
           /\ MatchAt(u, "TOP", b) /\ c > b + 3 /\ MatchAt(u, "100", c)
           /\ WordBoundary(s, c + 3)
        THEN c + 3 ELSE 0

\* re.sub(r'\bSELECT\s+TOP\s+100\b', 'SELECT', s) from position pos on
RECURSIVE SubSelectTop100(_, _, _)
SubSelectTop100(s, u, pos) ==
    LET hits == {i \in pos..Len(s) : SelectTop100At(s, u, i) # 0}
    IN  IF hits = {} THEN From(s, pos)
        ELSE SubSeq(s, pos, MinOf(hits) - 1) \o "SELECT"
             \o SubSelectTop100(s, u, SelectTop100At(s, u, MinOf(hits)))

\* re.sub(r'\s+', ' ', s)
RECURSIVE CollapseSpaces(_)
CollapseSpaces(s) ==
    LET i == SpanUntil(s, 1, SpaceChars)
    IN  IF i > Len(s) THEN s
        ELSE SubSeq(s, 1, i - 1) \o " " \o CollapseSpaces(From(s, SpanEnd(s, i, SpaceChars)))

\* the user asked for a limit of one hundred
UserAskedTop100(user_query) ==
    ContainsAny(Lower(user_query), {"top 100", "top hundred"})

\* the default-limit removal applies to this statement
RemovesTop100(user_query, sql_query) ==
    Contains(Lower(sql_query), "top 100") /\ ~UserAskedTop100(user_query)

RemoveTop100(sql_query) ==
    CollapseSpaces(Strip(SubSelectTop100(sql_query, Upper(sql_query), 1)))

AliasCount(sql_query) ==
    LET u == Upper(sql_query)
    IN  IF Contains(u, "COUNT(*)") /\ ~Contains(u, " AS ") /\ ~Contains(u, "COUNT(*) AS")
        THEN Replace(Replace(sql_query, "COUNT(*)", "COUNT(*) as count"),
                     "count(*)", "COUNT(*) as count")
        ELSE sql_query

\* lines 557-563: the rewriting applied to every statement that is returned
Normalize(sql_query) ==
    AliasCount(Replace(make_case_insensitive(sql_query), "ILIKE", "LIKE"))

\* lines 532-565: repair, default-limit removal and normalisation
\* lines 553-565: the check that follows a removal, then normalisation;
\* removed tells whether the default limit was removed from sql_query
CheckAndNormalize(removed, sql_query) ==
    IF removed /\ ~SearchWholeWord(Upper(sql_query), "SELECT")
    THEN Raised("SQL extraction error: SELECT keyword missing after TOP removal")
    ELSE Returned(Normalize(sql_query))

\* lines 543-565: default-limit removal and normalisation of the repaired
\* statement
RemoveDefaultLimit(user_query, repaired) ==
    CheckAndNormalize(RemovesTop100(user_query, repaired),
                      IF RemovesTop100(user_query, repaired) THEN RemoveTop100(repaired)
                      ELSE repaired)

PostProcess(user_query, sql_query) == RemoveDefaultLimit(user_query, RepairCte(sql_query))

\* lines 519-565: the statement left by the removal of the code fences
ProcessStatement(user_query, response_stripped, sql_query) ==
    IF sql_query = "" \/ ~ContainsAny(Upper(sql_query), StatementKeywords)
    THEN Returned("LOGICAL_ANSWER: " \o response_stripped)
    ELSE PostProcess(user_query, sql_query)

\* lines 507-565: what follows the call of extract_sql_from_response
ProcessExtracted(user_query, response_stripped, extracted) ==
    IF /\ extracted = "" \/ ~ContainsAny(Upper(extracted), ExtractedSqlKeywords)
       /\ ContainsAny(Lower(response_stripped), text_answer_indicators_after)
    THEN Returned("LOGICAL_ANSWER: " \o response_stripped)
    ELSE ProcessStatement(user_query, response_stripped, StripFences(extracted))

\* lines 504-565: extraction and everything after it
ExtractAndProcess(user_query, response) ==
    ProcessExtracted(user_query, Strip(response), extract_sql_from_response(response))

\* lines 496-502: the two sentinels the completion may carry
SentinelOf(response_stripped) ==
    IF StartsWith(response_stripped, "READ_ONLY_ERROR") THEN Some("READ_ONLY_ERROR")
    ELSE IF StartsWith(response_stripped, "INVALID_QUERY") THEN Some("INVALID_QUERY")
    ELSE None

\* lines 465-494: the verdict of the heuristics applied to a completion
\* without SQL keywords, None when they do not settle it
HeuristicOf(response_stripped) ==
    IF ContainsAny(Upper(response_stripped), ResponseSqlKeywords) THEN None
    ELSE IF ContainsAny(Lower(response_stripped), clarification_phrases)
    THEN Some("CLARIFICATION_NEEDED: " \o response_stripped)
    ELSE IF ContainsAny(Lower(response_stripped), text_answer_indicators)
    THEN Some("LOGICAL_ANSWER: " \o response_stripped)
    ELSE None

\* lines 454-565: what generate_sql_query makes of the completion
ClassifyStripped(user_query, response, response_stripped) ==
    IF StartsWith(response_stripped, "CLARIFICATION_NEEDED:") THEN Returned(response_stripped)
    ELSE IF StartsWith(response_stripped, "LOGICAL_ANSWER:") THEN Returned(response_stripped)
    ELSE IF HeuristicOf(response_stripped) # None
    THEN Returned(HeuristicOf(response_stripped)[1])
    ELSE IF SentinelOf(response_stripped) # None
    THEN Returned(SentinelOf(response_stripped)[1])
    ELSE ExtractAndProcess(user_query, response)

ClassifyResponse(user_query, response) ==
    ClassifyStripped(user_query, response, Strip(response))

\* the base tables of the business-data store
BaseTables == {"brands", "products"}

\* what the business-data store does during one get_table_schema call:
\* whether the connection opens and whether the catalogue queries succeed
SchemaOutcomes ==
    {[connect |-> FALSE, ok |-> FALSE]} \cup [connect : {TRUE}, ok : BOOLEAN]

\* the store reachable and answering
SchemaUp == [connect |-> TRUE, ok |-> TRUE]

\* get_table_schema ignoring the selection
get_table_schema_AllTables(selected, tables, db) ==
    IF ~db.connect THEN [opened |-> 0, closed |-> 0, failed |-> TRUE, tables |-> {}]
    ELSE IF ~db.ok THEN [opened |-> 1, closed |-> 0, failed |-> TRUE, tables |-> {}]
    ELSE [opened |-> 1, closed |-> 1, failed |-> FALSE, tables |-> tables]

\* get_table_schema: the connection it opens and closes and the tables of the
\* descriptor it returns; selected is selected_table_name, tables are the
\* base tables of the store
get_table_schema(selected, tables, db) ==
    IF ~db.connect THEN [opened |-> 0, closed |-> 0, failed |-> TRUE, tables |-> {}]
    ELSE IF ~db.ok THEN [opened |-> 1, closed |-> 0, failed |-> TRUE, tables |-> {}]
    ELSE [opened |-> 1, closed |-> 1, failed |-> FALSE,
          tables |-> IF selected # None /\ selected # Some("")
                     THEN {selected[1]} \cap tables ELSE tables]

\* the get_table_schema calls of one request, n being their number (0 or 1)
SchemaCallLog(n, selected, tables, db) ==
    IF n = 0 THEN <<>> ELSE <<get_table_schema(selected, tables, db)>>

\* what the model backend does with one request: a completion, or a failure
ModelError == "model error"

\* a call of generate_sql_query: the calls it makes and what it hands back;
\* onPass is what follows a message that passes both pre-checks
GenRun_SchemaFirst(has_write_op, is_valid, onPass) ==
    IF has_write_op
    THEN [schema |-> 1, model |-> 0, out |-> Returned("READ_ONLY_ERROR")]
    ELSE IF ~is_valid THEN [schema |-> 1, model |-> 0, out |-> ReturnedNone]
    ELSE [schema |-> 1, model |-> 1, out |-> onPass]

GenRun(has_write_op, is_valid, onPass) ==
    IF has_write_op
    THEN [schema |-> 0, model |-> 0, out |-> Returned("READ_ONLY_ERROR")]
    ELSE IF ~is_valid THEN [schema |-> 0, model |-> 0, out |-> ReturnedNone]
    ELSE [schema |-> 1, model |-> 1, out |-> onPass]

generate_sql_query(user_query, backend) ==
    GenRun(contains_write_operation(user_query), is_valid_database_query(user_query),
           IF backend.ok THEN ClassifyResponse(user_query, backend.text)
           ELSE Raised(ModelError))

\* the model backend answers with the completion, or fails
Backends(text) == {[ok |-> TRUE, text |-> text], [ok |-> FALSE, text |-> ""]}

(***************************************************************************)
(* Model dispatch and prompt                                               *)
(***************************************************************************)
\* SUPPORTED_MODELS: the provider of every supported model identifier
SUPPORTED_MODELS ==
    [m \in {"gpt-4o-mini", "llama3.2:1b"} |-> IF m = "gpt-4o-mini" THEN "openai" ELSE "ollama"]

\* generate_sql_with_model: the provider it dispatches to, None when it
\* raises for an identifier outside SUPPORTED_MODELS
DispatchedProvider(model) ==
    IF model \notin DOMAIN SUPPORTED_MODELS THEN None ELSE Some(SUPPORTED_MODELS[model])

\* what a call of generate_sql_with_model with this identifier can give
ModelBackends(model, text) ==
    IF DispatchedProvider(model) = None THEN {[ok |-> FALSE, text |-> ""]} ELSE Backends(text)

\* the model the chat handler works with; the empty text stands for an
\* absent or empty request.model
chat_model(request_model) ==
    LET model == IF request_model # "" /\ Strip(request_model) # "" THEN request_model
                 ELSE "gpt-4o-mini"
    IN  IF model \notin DOMAIN SUPPORTED_MODELS THEN "gpt-4o-mini" ELSE model

\* stands for the system prompt, which carries the rules and the schema
system_prompt == "system prompt"

HistoryWindow == 5

\* conversation_history[:5]
LastTurns_First(conversation_history) ==
    SubSeq(conversation_history, 1,
           IF Len(conversation_history) > HistoryWindow
           THEN HistoryWindow ELSE Len(conversation_history))

\* conversation_history[-5:]
LastTurns(conversation_history) ==
    SubSeq(conversation_history,
           IF Len(conversation_history) > HistoryWindow
           THEN Len(conversation_history) - HistoryWindow + 1 ELSE 1,
           Len(conversation_history))

\* the message list generate_sql_query hands to generate_sql_with_model
BuildMessages(user_query, conversation_history) ==
    <<[role |-> "system", content |-> system_prompt]>>
    \o [i \in 1..Len(LastTurns(conversation_history)) |->
          [role |-> LastTurns(conversation_history)[i].role,
           content |-> LastTurns(conversation_history)[i].content]]
    \o <<[role |-> "user", content |-> user_query]>>

\* one call of generate_sql_with_model as the log keeps it
ModelCall(model, user_query, conversation_history) ==
    [model |-> model, provider |-> DispatchedProvider(model),
     messages |-> BuildMessages(user_query, conversation_history)]

\* the calls of generate_sql_with_model made by a request that made n of them
ModelCallLog(n, model, user_query, conversation_history) ==
    IF n = 0 THEN <<>> ELSE <<ModelCall(model, user_query, conversation_history)>>

(***************************************************************************)
(* Chat handler: POST /api/chat                                            *)
(* The conversation store is taken to answer every statement; the chart    *)
(* fields of the response are left out.                                    *)
(***************************************************************************)
analysis_keywords ==
    {"analyze", "analysis", "summarize", "summary", "summarization",
     "explain", "explain me", "explain the data", "explain the response",
     "explain the results", "explain these results", "explain this data",
     "what does this data show", "what does this show", "what is this data",
     "insights", "findings", "interpret", "interpretation",
     "overview", "breakdown", "tell me about", "describe the data",
     "what can you tell me about", "summarize me", "explain the above"}

detect_analysis_request(msg) == ContainsAny(Lower(msg), analysis_keywords)

visualization_keywords ==
    {"show in visual", "show in graph", "show in chart", "visualize", "visualization",
     "display as graph", "display as chart", "show graph", "show chart", "plot",
     "graph it", "chart it", "make a graph", "make a chart", "create graph",
     "create chart", "draw graph", "draw chart", "show me in graph", "show me in chart",
     "show me in visual", "visualize this", "graph this", "chart this", "plot this"}

detect_visualization_request(msg) ==
    msg # "" /\ ContainsAny(Strip(Lower(msg)), visualization_keywords)

query_keywords ==
    {"top", "all", "list", "find", "get", "select", "how many", "what", "which", "where",
     "when", "show me", "show all"}

is_pure_visualization(msg) ==
    detect_visualization_request(msg) /\ ~ContainsAny(Lower(msg), query_keywords)

\* \bTOP\s+\d+\b matches at i, u being s in upper case; the value is the
\* position after the match, 0 when there is no match
TopClauseAt(s, u, i) ==
    LET b == SpanEnd(s, i + 3, SpaceChars)
        c == SpanEnd(s, b, CharsOf(DigitChars))
    IN  IF /\ WordBoundary(s, i) /\ MatchAt(u, "TOP", i) /\ b > i + 3
           /\ c > b /\ WordBoundary(s, c)
        THEN c ELSE 0

\* re.sub(r'\bTOP\s+\d+\b', '', s) from position pos on
RECURSIVE SubTopClause(_, _, _)
SubTopClause(s, u, pos) ==
    LET hits == {i \in pos..Len(s) : TopClauseAt(s, u, i) # 0}
    IN  IF hits = {} THEN From(s, pos)
        ELSE SubSeq(s, pos, MinOf(hits) - 1)
             \o SubTopClause(s, u, TopClauseAt(s, u, MinOf(hits)))

\* the statement the handler lifts out of an 'execute this query' message:
\* re.search(r'(SELECT\s+.*?)(?:\s*;|$)', msg), trimmed, its TOP clauses removed
\* lines 367-372: the statement kept when it is not empty
KeptStatement(found) == IF found = "" THEN None ELSE Some(found)

\* lines 369-372: the matched text trimmed, its TOP clauses removed
CleanMatch(group1) == KeptStatement(Strip(SubTopClause(group1, Upper(group1), 1)))

\* group(1) of the leftmost match, hits being the positions where SELECT\s
\* starts
MatchGroup(msg, hits) ==
    IF hits = {} THEN None
    ELSE LET i == MinOf(hits)
             j == SpanUntil(msg, SpanEnd(msg, i + 6, SpaceChars), {";"})
         IN  CleanMatch(Strip(SubSeq(msg, i, j - 1)))

direct_sql_match(msg) ==
    IF ~ContainsAny(Lower(msg), {"execute this query", "show all results:"}) THEN None
    ELSE LET u == Upper(msg)
         IN  MatchGroup(msg, {i \in 1..Len(msg) :
                                MatchAt(u, "SELECT", i) /\ i + 6 <= Len(msg)
                                /\ Ch(msg, i + 6) \in SpaceChars})

\* what the handler obtains as sql_query: the lifted statement, else the
\* outcome of generate_sql_query
ChatSqlSource(msg, direct, backend) ==
    IF direct # None
    THEN [schema |-> 0, model |-> 0, out |-> Returned(direct[1])]
    ELSE generate_sql_query(msg, backend)

\* limit = 0 if request_all else 1000
ChatLimit(msg) ==
    IF Contains(Lower(msg), "show all") \/ Contains(Lower(msg), "execute this query and show all")
    THEN 0 ELSE 1000

\* the result triple of a request that never reached execute_sql_query
NoResult == <<None, None, None>>

NoRun == [opened |-> 0, closed |-> 0, log |-> <<>>, failed |-> <<>>, out |-> NoResult]

\* the response of the handler, reduced to the fields the model keeps
ChatResponse(kind, sql_query, run) ==
    [message |-> kind,
     sql_query |-> IF sql_query # None /\ sql_query \notin {Some(""), Some("INVALID_QUERY")}
                   THEN sql_query ELSE None,
     data |-> run.out[1],
     error |-> run.out[2],
     total_count |-> IF run.out[3] # None /\ run.out[3] # Some(0) THEN run.out[3] ELSE None,
     has_more_records |-> run.out[1] # None /\ run.out[1][1] >= 1000]

\* which message the handler writes after execute_sql_query returned
ExecutedKind(run) ==
    IF run.out[2] # None
    THEN (IF ContainsAny(Lower(run.out[2][1]), {"read-only", "not allowed"})
          THEN "read_only_access" ELSE "execution_error")
    ELSE IF run.out[1][1] = 0 THEN "no_results"
    ELSE IF run.out[1][1] >= 1000 THEN "showing_1000"
    ELSE "found"

\* one request without execution: what is saved and what is answered
Answered(g, kind, sql_query, error) ==
    [sql |-> "", executed |-> FALSE, lim |-> 0, schema |-> g.schema, model |-> g.model,
     run |-> NoRun, store |-> <<"user", "assistant">>,
     resp |-> [ChatResponse(kind, sql_query, NoRun) EXCEPT !.error = error]]

\* one request that went through execute_sql_query: what is saved and what
\* is answered
Executed(g, sql_query, lim, run) ==
    [sql |-> sql_query, executed |-> TRUE, lim |-> lim, schema |-> g.schema, model |-> g.model,
     run |-> run, store |-> <<"user", "assistant">>,
     resp |-> ChatResponse(ExecutedKind(run), Some(sql_query), run)]

\* the request whose statement could not be generated: the handler answers
\* with its apology from the except clause
Apologized(g, error) ==
    [sql |-> "", executed |-> FALSE, lim |-> 0, schema |-> g.schema, model |-> g.model,
     run |-> NoRun, store |-> <<"user">>,
     resp |-> [ChatResponse("apology", None, NoRun) EXCEPT !.error = error]]

\* lines 359-453: the branch that obtains a statement and executes it; the
\* value is the set of ways the request can go
ChatSqlPath(msg, g) ==
    LET out == g.out
        v == IF out.value = None THEN "" ELSE out.value[1]
    IN  IF out.raised THEN {Apologized(g, out.value)}
        ELSE IF v # "" /\ StartsWith(Strip(v), "LOGICAL_ANSWER:")
        THEN {Answered(g, "logical_answer", None, None)}
        ELSE IF v # "" /\ StartsWith(Strip(v), "CLARIFICATION_NEEDED:")
        THEN {Answered(g, "clarification", None, None)}
        ELSE IF out.value = None THEN {Answered(g, "not_a_database_query", None, None)}
        ELSE IF v = "INVALID_QUERY" \/ Strip(v) = ""
        THEN {Answered(g, "not_understood", out.value, None)}
        ELSE IF v = "READ_ONLY_ERROR"
        THEN {Answered(g, "read_only", out.value,
                       Some("Read-only access: Write operations are not allowed"))}
        ELSE LET lim == ChatLimit(msg)
                 verdict == is_read_only_query(v)
                 plan == ExecPlan(v, lim)
             IN  {Executed(g, v, lim, ExecOutcome(verdict, plan, db)) : db \in DbOutcomes}

\* the answers of the two branches that work on the previous assistant
\* message of the session instead of a new statement
PreviousKinds(msg) ==
    IF is_pure_visualization(msg) /\ ~detect_analysis_request(msg)
    THEN {"visualization", "no_chart_type", "no_previous_data"}
    ELSE {"analysis", "analysis_error", "no_previous_data"}

NoCalls == [schema |-> 0, model |-> 0]

\* the outcomes of one request to POST /api/chat
chat(msg, text) ==
    IF (is_pure_visualization(msg) /\ ~detect_analysis_request(msg)) \/ detect_analysis_request(msg)
    THEN {Answered(NoCalls, k, None, None) : k \in PreviousKinds(msg)}
    ELSE LET direct == direct_sql_match(msg)
         IN  UNION {ChatSqlPath(msg, ChatSqlSource(msg, direct, b)) : b \in Backends(text)}

(***************************************************************************)
(* Custom analytics query: GET /api/analytics/custom-query                 *)
(***************************************************************************)
write_keywords == {"INSERT", "UPDATE", "DELETE", "DROP", "CREATE", "ALTER", "TRUNCATE"}

\* the endpoint's own validation of the query text: the HTTP status it
\* answers with, 200 when the query goes on to the database
CustomQueryCheck(query) ==
    IF ~StartsWith(Strip(Upper(query)), "SELECT") THEN 400
    ELSE IF ContainsAny(Strip(Upper(query)), write_keywords) THEN 400
    ELSE 200

\* one request: the connection, the statement sent, and the HTTP status
get_custom_analytics(query, db) ==
    IF CustomQueryCheck(query) # 200
    THEN [opened |-> 0, closed |-> 0, log |-> <<>>, failed |-> <<>>,
          status |-> CustomQueryCheck(query)]
    ELSE IF ~db.connect
    THEN [opened |-> 0, closed |-> 0, log |-> <<>>, failed |-> <<>>, status |-> 500]
    ELSE IF ~db.primaryOk
    THEN [opened |-> 1, closed |-> 0, log |-> <<query>>, failed |-> <<query>>, status |-> 500]
    ELSE [opened |-> 1, closed |-> 1, log |-> <<query>>, failed |-> <<>>, status |-> 200]

\* the outcomes of one request to the endpoint
CustomCalls(query) == {get_custom_analytics(query, db) : db \in DbOutcomes}

(***************************************************************************)
(* Bounded input texts                                                     *)
(***************************************************************************)
RECURSIVE Join(_)
Join(fs) == IF fs = <<>> THEN "" ELSE Head(fs) \o Join(Tail(fs))

\* every concatenation of at most n pieces drawn from frags
Texts(frags, n) == {Join(fs) : fs \in UNION {[1..k -> frags] : k \in 0..n}}

MaxSqlFrags == 4

SqlStarts == {"SELECT ", "WITH ", ""}

SqlFrags == {"'", "--", "/*", "*/", "\n", ";", "DELETE "}

SqlTexts == {h \o t : h \in SqlStarts, t \in Texts(SqlFrags, MaxSqlFrags)}

Limits == {0, 1000}

\* statements that carry a comment before or around their code
CommentedStatements ==
    {"-- all\nSELECT * FROM T", "/* all */ SELECT * FROM T", "/* SELECT 1 */ DELETE FROM T",
     "SELECT * FROM T -- all", "  SELECT /* all */ * FROM T"}

\* statements with and without a row limit of their own
LimitStatements ==
    {"SELECT * FROM T", "select name from t", "SELECT TOP 5 * FROM T",
     "SELECT TOP 5000 * FROM T", "SELECT * FROM STOP", "SELECT * FROM T WHERE a = 'top'"}


(***************************************************************************)
(* SpecExec: one call of execute_sql_query on an arbitrary text            *)
(***************************************************************************)
InitExec ==
    /\ pc = "start"
    /\ sqlIn \in SqlTexts \cup LimitStatements \cup CommentedStatements
    /\ limit = 1000
    /\ message = ""
    /\ completion = ""
    /\ endpoint = "execute_sql_query"
    /\ ret = None
    /\ schemaCalls = 0
    /\ modelCalls = 0
    /\ conns = 0
    /\ dbLog = <<>>
    /\ result = NoResult
    /\ chatStore = <<>>
    /\ requestModel = "gpt-4o-mini"
    /\ history = <<>>
    /\ modelLog = <<>>
    /\ dbErrors = <<>>
    /\ connsClosed = 0
    /\ schemaLog = <<>>
    /\ selected_table_name = None
    /\ excel_tables = {}
    /\ public_tables = {}
    /\ request = None
    /\ served = 0
    /\ selectedBy = None
    /\ active_tokens = <<>>
    /\ now = 0
    /\ issued = 0
    /\ tokenIssuedAt = <<>>
    /\ loggedOut = {}
    /\ gcu = None
    /\ is_read_only = None
    /\ schemaDb = SchemaUp

ExecuteSqlQuery ==
    /\ pc = "start"
    /\ endpoint = "execute_sql_query"
    /\ \E c \in ExecCalls(sqlIn, Limits) :
         /\ limit' = c.lim
         /\ is_read_only' = Some(c.is_read_only)
         /\ conns' = conns + c.run.opened
         /\ dbLog' = dbLog \o c.run.log
         /\ connsClosed' = connsClosed + c.run.closed
         /\ dbErrors' = dbErrors \o c.run.failed
         /\ result' = c.run.out
    /\ pc' = "done"
    /\ UNCHANGED <<schemaLog, selected_table_name>>
    /\ UNCHANGED <<sqlIn, message, completion, endpoint, ret, schemaCalls, modelCalls, chatStore,
                   requestModel, history, modelLog>>
    /\ UNCHANGED <<excel_tables, public_tables, request, served, selectedBy>>
    /\ UNCHANGED <<active_tokens, now, issued, tokenIssuedAt, loggedOut, gcu>>
    /\ UNCHANGED <<schemaDb>>

NextExec == ExecuteSqlQuery

SpecExec == InitExec /\ [][NextExec]_vars

(***************************************************************************)
(* generate_sql_query under bounded user messages and completions          *)
(***************************************************************************)
MaxMsgFrags == 2

MsgVerbs == {"", "delete", "update", "insert", "truncate", "drop", "alter", "execute", "show"}

MsgFrags == {" from", " brands", " set", " into", " table", " database", " all", " update"}

MsgTexts == {v \o t : v \in MsgVerbs, t \in Texts(MsgFrags, MaxMsgFrags)} \cup {"hi"}

MaxCompFrags == 3

CompFrags ==
    {"READ_ONLY_ERROR", "INVALID_QUERY", " please specify", " you can use",
     "SELECT TOP 100 * ", "FROM T", "DELETE ", ";"}

CompTexts == Texts(CompFrags, MaxCompFrags)

BaseMessages == {"show brands", "show top 100 brands"}

BaseCompletions == {"SELECT * FROM T", "hello"}

\* the outcomes of one call of generate_sql_query
GenCalls(user_query, text) == {generate_sql_query(user_query, b) : b \in Backends(text)}

\* the outcomes of one call of generate_sql_query with the given model
GenCallsWith(user_query, model, text) ==
    {generate_sql_query(user_query, b) : b \in ModelBackends(model, text)}

MaxHistory == 6

Turns ==
    {[role |-> "user", content |-> "show brands"],
     [role |-> "assistant", content |-> "Found 2 records"]}

Histories == UNION {[1..n -> Turns] : n \in 0..MaxHistory}

RequestModels == {"gpt-4o-mini", "llama3.2:1b", "gpt-5", "", " "}

InitGen ==
    /\ pc = "start"
    /\ endpoint = "generate_sql_query"
    /\ \/ /\ message \in MsgTexts /\ completion \in BaseCompletions
          /\ requestModel = "gpt-4o-mini" /\ history = <<>>
          /\ schemaDb = SchemaUp
       \/ /\ message \in BaseMessages /\ completion \in CompTexts
          /\ requestModel = "gpt-4o-mini" /\ history = <<>>
          /\ schemaDb = SchemaUp
       \/ /\ message \in BaseMessages \cup {"hi", "delete from brands"}
          /\ completion \in BaseCompletions
          /\ requestModel \in RequestModels /\ history \in Histories
          /\ schemaDb = SchemaUp
       \/ /\ message \in BaseMessages \cup {"hi", "delete from brands"}
          /\ completion \in BaseCompletions
          /\ requestModel = "gpt-4o-mini" /\ history = <<>>
          /\ schemaDb \in SchemaOutcomes
    /\ sqlIn = ""
    /\ limit = 0
    /\ ret = None
    /\ schemaCalls = 0
    /\ modelCalls = 0
    /\ conns = 0
    /\ dbLog = <<>>
    /\ result = NoResult
    /\ chatStore = <<>>
    /\ modelLog = <<>>
    /\ dbErrors = <<>>
    /\ connsClosed = 0
    /\ schemaLog = <<>>
    /\ selected_table_name = None
    /\ excel_tables = {}
    /\ public_tables = {}
    /\ request = None
    /\ served = 0
    /\ selectedBy = None
    /\ active_tokens = <<>>
    /\ now = 0
    /\ issued = 0
    /\ tokenIssuedAt = <<>>
    /\ loggedOut = {}
    /\ gcu = None
    /\ is_read_only = None

GenerateSqlQuery ==
    /\ pc = "start"
    /\ endpoint = "generate_sql_query"
    /\ \E g \in GenCallsWith(message, requestModel, completion) :
         /\ schemaCalls' = schemaCalls + g.schema
         /\ modelCalls' = modelCalls + g.model
         /\ modelLog' = modelLog \o ModelCallLog(g.model, requestModel, message, history)
         /\ schemaLog' = schemaLog \o SchemaCallLog(g.schema, selected_table_name, BaseTables, schemaDb)
         /\ ret' = Some(g.out)
    /\ pc' = "done"
    /\ UNCHANGED <<sqlIn, limit, message, completion, endpoint, conns, dbLog, result, chatStore,
                   requestModel, history, dbErrors, connsClosed, selected_table_name>>
    /\ UNCHANGED <<excel_tables, public_tables, request, served, selectedBy>>
    /\ UNCHANGED <<active_tokens, now, issued, tokenIssuedAt, loggedOut, gcu>>
    /\ UNCHANGED <<is_read_only>>
    /\ UNCHANGED <<schemaDb>>

NextGen == GenerateSqlQuery

SpecGen == InitGen /\ [][NextGen]_vars

(***************************************************************************)
(* extract_sql_from_response under completions made of a statement and     *)
(* trailing prose                                                          *)
(***************************************************************************)
MaxStmtLines == 2

StmtHeads == {"SELECT *", "WITH X AS (SELECT 1)\nSELECT *"}

StmtLines == {"\nFROM", "\ndbo.Users", "\nFROM T", "\nWHERE a = 1", "\nORDER BY a"}

Statements == {h \o t : h \in StmtHeads, t \in Texts(StmtLines, MaxStmtLines)}

\* what stands between the statement and the prose
ProseSeparators == {";", "; ", ";\n", "\n"}

\* explanatory sentences without any SQL keyword or symbol
Proses == {"Hello there", "Rows per user"}

Preambles == {"", "Here is the query: "}

InitExtract ==
    /\ pc = "start"
    /\ endpoint = "extract_sql_from_response"
    /\ sqlIn \in Statements
    /\ \E a \in Preambles, sep \in ProseSeparators, prose \in Proses :
            completion = a \o sqlIn \o sep \o prose
    /\ message = ""
    /\ limit = 0
    /\ ret = None
    /\ schemaCalls = 0
    /\ modelCalls = 0
    /\ conns = 0
    /\ dbLog = <<>>
    /\ result = NoResult
    /\ chatStore = <<>>
    /\ requestModel = "gpt-4o-mini"
    /\ history = <<>>
    /\ modelLog = <<>>
    /\ dbErrors = <<>>
    /\ connsClosed = 0
    /\ schemaLog = <<>>
    /\ selected_table_name = None
    /\ excel_tables = {}
    /\ public_tables = {}
    /\ request = None
    /\ served = 0
    /\ selectedBy = None
    /\ active_tokens = <<>>
    /\ now = 0
    /\ issued = 0
    /\ tokenIssuedAt = <<>>
    /\ loggedOut = {}
    /\ gcu = None
    /\ is_read_only = None
    /\ schemaDb = SchemaUp

ExtractSql ==
    /\ pc = "start"
    /\ endpoint = "extract_sql_from_response"
    /\ ret' = Some(extract_sql_from_response(completion))
    /\ pc' = "done"
    /\ UNCHANGED <<sqlIn, limit, message, completion, endpoint, schemaCalls, modelCalls,
                   conns, dbLog, result, chatStore, requestModel, history, modelLog, dbErrors>>
    /\ UNCHANGED <<connsClosed, schemaLog, selected_table_name>>
    /\ UNCHANGED <<excel_tables, public_tables, request, served, selectedBy>>
    /\ UNCHANGED <<active_tokens, now, issued, tokenIssuedAt, loggedOut, gcu>>
    /\ UNCHANGED <<is_read_only>>
    /\ UNCHANGED <<schemaDb>>

NextExtract == ExtractSql

SpecExtract == InitExtract /\ [][NextExtract]_vars

(***************************************************************************)
(* The endpoints that execute SQL on the business-data store               *)
(***************************************************************************)
MaxApiFrags == 2

ApiHeads == {"SELECT ", "WITH X AS (SELECT 1) SELECT "}

ApiFrags == {"* FROM X", "; EXEC P", "TOP 5 "}

ApiSqlTexts == {h \o t : h \in ApiHeads, t \in Texts(ApiFrags, MaxApiFrags)}

PlainMessages ==
    {"show brands", "show all brands", "plot this", "summarize", "delete from brands", "hi"}

\* the message the 'Show All Records' button sends
DirectMessages == {"Execute this query and show all results: " \o t : t \in ApiSqlTexts}

ChatCompletions == ApiSqlTexts \cup {"hello", "READ_ONLY_ERROR", "INVALID_QUERY"}

\* a plain message with any completion; a message that carries its own
\* statement with one completion, the model not being consulted for it
ChatRequests ==
    {<<m, c>> : m \in PlainMessages, c \in ChatCompletions}
    \cup {<<m, "hello">> : m \in DirectMessages}

InitApi ==
    /\ pc = "start"
    /\ \/ /\ endpoint = "chat"
          /\ \E r \in ChatRequests : message = r[1] /\ completion = r[2]
          /\ sqlIn = ""
          /\ requestModel = "gpt-4o-mini"
          /\ history = <<>>
          /\ schemaDb \in SchemaOutcomes
       \/ /\ endpoint = "chat"
          /\ message \in PlainMessages
          /\ completion = "SELECT * FROM X"
          /\ sqlIn = ""
          /\ requestModel \in RequestModels
          /\ history \in {h \in Histories : Len(h) <= 1}
          /\ schemaDb = SchemaUp
       \/ /\ endpoint = "custom_query"
          /\ sqlIn \in ApiSqlTexts
          /\ message = ""
          /\ completion = ""
          /\ requestModel = "gpt-4o-mini"
          /\ history = <<>>
          /\ schemaDb = SchemaUp
    /\ limit = 0
    /\ ret = None
    /\ schemaCalls = 0
    /\ modelCalls = 0
    /\ conns = 0
    /\ dbLog = <<>>
    /\ result = NoResult
    /\ chatStore = <<>>
    /\ modelLog = <<>>
    /\ dbErrors = <<>>
    /\ connsClosed = 0
    /\ schemaLog = <<>>
    /\ selected_table_name = None
    /\ excel_tables = {}
    /\ public_tables = {}
    /\ request = None
    /\ served = 0
    /\ selectedBy = None
    /\ active_tokens = <<>>
    /\ now = 0
    /\ issued = 0
    /\ tokenIssuedAt = <<>>
    /\ loggedOut = {}
    /\ gcu = None
    /\ is_read_only = None

Chat ==
    /\ pc = "start"
    /\ endpoint = "chat"
    /\ \E c \in chat(message, completion) :
         /\ sqlIn' = c.sql
         /\ limit' = c.lim
         /\ schemaCalls' = schemaCalls + c.schema
         /\ modelCalls' = modelCalls + c.model
         /\ modelLog' = modelLog \o ModelCallLog(c.model, chat_model(requestModel), message, history)
         /\ conns' = conns + c.run.opened
         /\ dbLog' = dbLog \o c.run.log
         /\ connsClosed' = connsClosed + c.run.closed
         /\ schemaLog' = schemaLog \o SchemaCallLog(c.schema, selected_table_name, BaseTables, schemaDb)
         /\ is_read_only' = IF c.run = NoRun THEN None ELSE Some(is_read_only_query(c.sql).ok)
         /\ dbErrors' = dbErrors \o c.run.failed
         /\ result' = c.run.out
         /\ chatStore' = chatStore \o c.store
         /\ ret' = Some(c.resp)
    /\ pc' = "done"
    /\ UNCHANGED <<message, completion, endpoint, requestModel, history, selected_table_name>>
    /\ UNCHANGED <<excel_tables, public_tables, request, served, selectedBy>>
    /\ UNCHANGED <<active_tokens, now, issued, tokenIssuedAt, loggedOut, gcu>>
    /\ UNCHANGED <<schemaDb>>

GetCustomAnalytics ==
    /\ pc = "start"
    /\ endpoint = "custom_query"
    /\ \E c \in CustomCalls(sqlIn) :
         /\ conns' = conns + c.opened
         /\ dbLog' = dbLog \o c.log
         /\ connsClosed' = connsClosed + c.closed
         /\ dbErrors' = dbErrors \o c.failed
         /\ ret' = Some(c.status)
    /\ pc' = "done"
    /\ UNCHANGED <<sqlIn, limit, message, completion, endpoint, schemaCalls, modelCalls,
                   result, chatStore, requestModel, history, modelLog, schemaLog,
                   selected_table_name>>
    /\ UNCHANGED <<excel_tables, public_tables, request, served, selectedBy>>
    /\ UNCHANGED <<active_tokens, now, issued, tokenIssuedAt, loggedOut, gcu>>
    /\ UNCHANGED <<is_read_only>>
    /\ UNCHANGED <<schemaDb>>

NextApi == Chat \/ GetCustomAnalytics

SpecApi == InitApi /\ [][NextApi]_vars

(***************************************************************************)
(* What SQL Server treats as code: the text with string literals and       *)
(* comments blanked out.  A comment opens only outside a string literal,   *)
(* a string literal only outside a comment; block comments nest; a line    *)
(* comment ends at the end of its line.                                    *)
(***************************************************************************)
\* position of the first of the markers ps in s, 0 when none occurs
FirstOf(s, ps) ==
    LET hits == {i \in 1..Len(s) : \E p \in ps : MatchAt(s, p, i)}
    IN  IF hits = {} THEN 0 ELSE CHOOSE i \in hits : \A j \in hits : i <= j

RECURSIVE SqlCode(_, _, _)
SqlCode(s, mode, depth) ==
    CASE mode = "code" ->
            LET i == FirstOf(s, {"--", "/*", "'"})
            IN  IF i = 0 THEN s
                ELSE SubSeq(s, 1, i - 1) \o " " \o
                     (IF MatchAt(s, "--", i) THEN SqlCode(From(s, i + 2), "line", 0)
                      ELSE IF MatchAt(s, "/*", i) THEN SqlCode(From(s, i + 2), "block", 1)
                      ELSE SqlCode(From(s, i + 1), "str", 0))
      [] mode = "str" ->
            LET i == Find(s, "'")
            IN  IF i = 0 THEN "" ELSE SqlCode(From(s, i + 1), "code", 0)
      [] mode = "line" ->
            LET i == Find(s, "\n")
            IN  IF i = 0 THEN "" ELSE SqlCode(From(s, i), "code", 0)
      [] mode = "block" ->
            LET i == FirstOf(s, {"*/", "/*"})
            IN  IF i = 0 THEN ""
                ELSE IF MatchAt(s, "/*", i) THEN SqlCode(From(s, i + 2), "block", depth + 1)
                ELSE IF depth = 1 THEN SqlCode(From(s, i + 2), "code", 0)
                ELSE SqlCode(From(s, i + 2), "block", depth - 1)

\* a deny-list keyword stands as a whole word in the code of the text
DenyKeywordInCode(text) == FirstDangerous(Upper(SqlCode(text, "code", 0))) # 0

(***************************************************************************)
(* The normalisation of generate_sql_query (lines 532-565) and             *)
(* make_case_insensitive (lines 99-188) applied to statements built from a *)
(* head, one WHERE condition and a tail                                    *)
(***************************************************************************)
MaxInList == 3

ColumnRefs == {"name", "t.name", "[name]"}

TextLiterals == {"Sas", "ali", "Maxwell", "New York"}

InValues == {"Gold", "silver"}

InLists == UNION {[1..n -> InValues] : n \in 1..MaxInList}

\* 'v1', 'v2', ..., 'vn'
RECURSIVE QuotedList(_)
QuotedList(values) ==
    IF Len(values) = 1 THEN "'" \o values[1] \o "'"
    ELSE "'" \o values[1] \o "', " \o QuotedList(Tail(values))

\* LOWER('v1'), LOWER('v2'), ..., LOWER('vn')
RECURSIVE LoweredList(_)
LoweredList(values) ==
    IF Len(values) = 1 THEN "LOWER('" \o values[1] \o "')"
    ELSE "LOWER('" \o values[1] \o "'), " \o LoweredList(Tail(values))

EqualsCondition(column, literal) == column \o " = '" \o literal \o "'"

InCondition(column, values) == column \o " IN (" \o QuotedList(values) \o ")"

Conditions ==
    {EqualsCondition(c, l) : c \in ColumnRefs, l \in TextLiterals}
    \cup {InCondition(c, vs) : c \in ColumnRefs, vs \in InLists}
    \cup {"name LIKE 'sas'", "name ILIKE 'sas'"}

StatementHeads == {"SELECT * FROM T", "SELECT TOP 100 * FROM T", "SELECT COUNT(*) FROM T"}

StatementTails == {"", " ORDER BY name"}

WhereStatement(head, condition, tail) == head \o " WHERE " \o condition \o tail

NormStatements ==
    {h \o t : h \in StatementHeads, t \in StatementTails}
    \cup {WhereStatement(h, c, t) : h \in StatementHeads, c \in Conditions, t \in StatementTails}

NormMessages == {"show brands", "show top 100 brands", "first 100 brands", "show a hundred brands"}

InitNorm ==
    /\ pc = "start"
    /\ \/ endpoint = "normalize" /\ message \in NormMessages
       \/ endpoint = "make_case_insensitive" /\ message = ""
    /\ sqlIn \in NormStatements
    /\ limit = 0
    /\ completion = ""
    /\ ret = None
    /\ schemaCalls = 0
    /\ modelCalls = 0
    /\ conns = 0
    /\ dbLog = <<>>
    /\ result = NoResult
    /\ chatStore = <<>>
    /\ requestModel = "gpt-4o-mini"
    /\ history = <<>>
    /\ modelLog = <<>>
    /\ dbErrors = <<>>
    /\ connsClosed = 0
    /\ schemaLog = <<>>
    /\ selected_table_name = None
    /\ excel_tables = {}
    /\ public_tables = {}
    /\ request = None
    /\ served = 0
    /\ selectedBy = None
    /\ active_tokens = <<>>
    /\ now = 0
    /\ issued = 0
    /\ tokenIssuedAt = <<>>
    /\ loggedOut = {}
    /\ gcu = None
    /\ is_read_only = None
    /\ schemaDb = SchemaUp

\* lines 532-565 applied to sqlIn; a second application takes the statement
\* the first one returned
NormalizeStatement ==
    /\ endpoint = "normalize"
    /\ \/ /\ pc = "start"
          /\ ret' = Some(PostProcess(message, sqlIn))
          /\ pc' = "once"
          /\ UNCHANGED sqlIn
       \/ /\ pc = "once"
          /\ ~ret[1].raised
          /\ sqlIn' = ret[1].value[1]
          /\ ret' = Some(PostProcess(message, ret[1].value[1]))
          /\ pc' = "done"
    /\ UNCHANGED <<limit, message, completion, endpoint, schemaCalls, modelCalls, conns, dbLog,
                   result, chatStore, requestModel, history, modelLog, dbErrors>>
    /\ UNCHANGED <<connsClosed, schemaLog, selected_table_name>>
    /\ UNCHANGED <<excel_tables, public_tables, request, served, selectedBy>>
    /\ UNCHANGED <<active_tokens, now, issued, tokenIssuedAt, loggedOut, gcu>>
    /\ UNCHANGED <<is_read_only>>
    /\ UNCHANGED <<schemaDb>>

\* lines 99-188 applied to sqlIn
MakeCaseInsensitive ==
    /\ endpoint = "make_case_insensitive"
    /\ pc = "start"
    /\ ret' = Some(make_case_insensitive(sqlIn))
    /\ pc' = "done"
    /\ UNCHANGED <<sqlIn, limit, message, completion, endpoint, schemaCalls, modelCalls, conns,
                   dbLog, result, chatStore, requestModel, history, modelLog, dbErrors>>
    /\ UNCHANGED <<connsClosed, schemaLog, selected_table_name>>
    /\ UNCHANGED <<excel_tables, public_tables, request, served, selectedBy>>
    /\ UNCHANGED <<active_tokens, now, issued, tokenIssuedAt, loggedOut, gcu>>
    /\ UNCHANGED <<is_read_only>>
    /\ UNCHANGED <<schemaDb>>

NextNorm == NormalizeStatement \/ MakeCaseInsensitive

SpecNorm == InitNorm /\ [][NextNorm]_vars

(***************************************************************************)
(* Claims on the execution wrapper and the safety gate                     *)
(***************************************************************************)
\* C1: when is_read_only_query rejects the text, execute_sql_query opens no
\* connection, executes neither the COUNT wrapper nor the primary statement,
\* and returns (None, <rejection reason>, None).
C1_RejectedNeverRuns ==
    pc = "done" =>
        LET verdict == is_read_only_query(sqlIn)
        IN  ~verdict.ok =>
                /\ conns = 0
                /\ dbLog = <<>>
                /\ result = <<None, verdict.reason, None>>
                /\ verdict.reason # None

\* a text that starts with SELECT and is rejected for a deny-list keyword has
\* been handled
C1_Witness ==
    /\ pc = "done"
    /\ StartsWith(sqlIn, "SELECT")
    /\ ~is_read_only_query(sqlIn).ok
    /\ FirstDangerous(Upper(GateStripComments(sqlIn))) # 0

\* C2: no statement sent to the database carries a deny-list keyword as a
\* whole word in the part of the text the database treats as code.
C2_NoDenyKeywordReachesDb ==
    \A i \in 1..Len(dbLog) : ~DenyKeywordInCode(dbLog[i])

\* C5: a user message that matches one of the seven write-syntax patterns
\* makes generate_sql_query return READ_ONLY_ERROR with no schema fetch and no
\* model-backend dispatch.
C5_WriteSyntaxBlockedBeforeCalls ==
    (pc = "done" /\ AnyWritePattern(Strip(Lower(message))))
        => /\ ret = Some(Returned("READ_ONLY_ERROR"))
           /\ schemaCalls = 0
           /\ modelCalls = 0

C5_Witness ==
    /\ pc = "done"
    /\ WritePatternMatches(Strip(Lower(message)), 2)
    /\ ret = Some(Returned("READ_ONLY_ERROR"))
    /\ modelCalls = 0

\* C6 (as stated): the message "delete all brands" is blocked by the
\* pre-filter and handling it makes no model-backend call.
C6_PlainWordsBlocked ==
    (pc = "done" /\ message = "delete all brands")
        => ret = Some(Returned("READ_ONLY_ERROR")) /\ modelCalls = 0

\* C6 (amended): the message "delete all brands" passes the pre-filter, so
\* handling it makes one schema fetch and one model-backend call and the
\* outcome is what the completion classifies to (or the backend's failure);
\* the SQL-shaped "delete from brands" is the one answered READ_ONLY_ERROR
\* with no call.
C6_PlainWordsReachModel ==
    /\ (pc = "done" /\ message = "delete all brands")
        => /\ schemaCalls = 1
           /\ modelCalls = 1
           /\ ret \in {Some(ClassifyResponse(message, completion)), Some(Raised(ModelError))}
    /\ (pc = "done" /\ message = "delete from brands")
        => ret = Some(Returned("READ_ONLY_ERROR")) /\ schemaCalls = 0 /\ modelCalls = 0

C6_Witness ==
    /\ pc = "done"
    /\ message = "delete all brands"
    /\ modelCalls = 1
    /\ ret = Some(Returned("SELECT * FROM T"))

\* C7: a completion whose trimmed text begins with READ_ONLY_ERROR
\* (INVALID_QUERY) is answered READ_ONLY_ERROR (INVALID_QUERY) whatever
\* follows, ahead of the no-SQL-keyword heuristics.
C7_SentinelsBeforeHeuristics ==
    (pc = "done" /\ modelCalls = 1 /\ ret # Some(Raised(ModelError)))
        => /\ StartsWith(Strip(completion), "READ_ONLY_ERROR")
                => ret = Some(Returned("READ_ONLY_ERROR"))
           /\ StartsWith(Strip(completion), "INVALID_QUERY")
                => ret = Some(Returned("INVALID_QUERY"))

\* the value generate_sql_query handed back is one the chat handler treats
\* as a SQL statement
TreatedAsSql(out) ==
    /\ ~out.raised
    /\ out.value # None
    /\ out.value[1] \notin {"READ_ONLY_ERROR", "INVALID_QUERY"}
    /\ Strip(out.value[1]) # ""
    /\ ~StartsWith(Strip(out.value[1]), "CLARIFICATION_NEEDED:")
    /\ ~StartsWith(Strip(out.value[1]), "LOGICAL_ANSWER:")

\* C8: a value generate_sql_query returns as a SQL statement begins,
\* case-insensitively, with SELECT or WITH.
C8_SqlBeginsWithSelectOrWith ==
    (pc = "done" /\ ret # None /\ TreatedAsSql(ret[1]))
        => StartsWithAny(Upper(ret[1].value[1]), {"SELECT", "WITH"})

\* a write keyword occurs in the message as a whole word while none of the
\* seven keyword-plus-companion patterns matches
BareWriteKeyword(user_query) ==
    /\ \E k \in 1..Len(sql_write_patterns) :
            SearchWholeWord(Strip(Lower(user_query)), sql_write_patterns[k][1])
    /\ ~AnyWritePattern(Strip(Lower(user_query)))

\* the call was stopped by the pre-filter as a write request
BlockedAsWrite == ret = Some(Returned("READ_ONLY_ERROR")) /\ schemaCalls = 0 /\ modelCalls = 0

\* C10 (as stated): a message in which a write keyword occurs only as a bare
\* word, without its companion token, is never blocked by the pre-filter.
C10_BareKeywordNeverBlocked ==
    (pc = "done" /\ BareWriteKeyword(message)) => ~BlockedAsWrite

\* C10 (amended): a message in which a write keyword occurs only as a bare
\* word, without its companion token, and which does not begin with
\* "execute", is never blocked by the pre-filter.
C10_BareKeywordBlockedOnlyByExecute ==
    (/\ pc = "done"
     /\ BareWriteKeyword(message)
     /\ ~StartsWith(Strip(Lower(message)), "execute"))
        => ~BlockedAsWrite /\ schemaCalls = 1 /\ modelCalls = 1

C10_Witness ==
    /\ pc = "done"
    /\ BareWriteKeyword(message)
    /\ SearchWholeWord(Lower(message), "drop")
    /\ ~StartsWith(Strip(Lower(message)), "execute")
    /\ modelCalls = 1
    /\ ret = Some(ClassifyResponse(message, completion))

\* C3: every SQL text that an endpoint executes against the business-data
\* store (the chat handler's generated and direct statements, the custom
\* analytics query) is a text that is_read_only_query accepts.
C3_GateBeforeEveryExecution ==
    (pc = "done" /\ dbLog # <<>>) => is_read_only_query(sqlIn).ok

\* C4: a statement that generate_sql_query returns beginning with WITH,
\* holding no deny-list keyword and at most one semicolon, is accepted by
\* is_read_only_query when the chat handler hands it to execute_sql_query,
\* and is not answered with the gate's rejection.
C4_CteAcceptedByGate ==
    (/\ pc = "done"
     /\ endpoint = "chat"
     /\ result # NoResult
     /\ StartsWith(Upper(sqlIn), "WITH")
     /\ FirstDangerous(Upper(sqlIn)) = 0
     /\ CountChar(sqlIn, ";") <= 1)
        => /\ is_read_only_query(sqlIn).ok
           /\ result[2] # is_read_only_query(sqlIn).reason

\* C9: for a completion made of a SELECT/WITH statement followed by
\* explanatory prose, extract_sql_from_response returns the statement
\* without the prose: up to the first semicolon when the statement ends at
\* one, and the whole statement (its lines joined) when there is no semicolon
\* and the prose stands on a later line without SQL keyword.
C9_StatementWithoutProse ==
    pc = "done"
        => IF Contains(completion, ";")
           THEN ret = Some(sqlIn \o ";")
           ELSE ret = Some(JoinSpace(SplitLines(sqlIn)))

\* C11: for a chat request that carries a non-empty model identifier outside
\* the allow-list no model backend is dispatched: it is not served by a
\* default backend.
C11_UnknownModelDispatchesNothing ==
    (pc = "done" /\ endpoint = "chat" /\ requestModel # ""
     /\ requestModel \notin DOMAIN SUPPORTED_MODELS)
        => \A i \in 1..Len(modelLog) : modelLog[i].provider = None

\* the last min(n, k) elements of a sequence of n elements, in their order
LastOf(h, k) == [i \in 1..(IF Len(h) < k THEN Len(h) ELSE k) |->
                    h[Len(h) - (IF Len(h) < k THEN Len(h) ELSE k) + i]]

\* C12: the message list handed to the model is the system prompt, then the
\* last min(n, 5) turns of the history in their order with their roles and
\* contents, then the current user message as the last element.
C12_PromptIsSystemLastFiveUser ==
    (pc = "done" /\ endpoint = "generate_sql_query")
        => \A i \in 1..Len(modelLog) :
             LET messages == modelLog[i].messages
                 kept == LastOf(history, 5)
             IN  /\ Len(messages) = Len(kept) + 2
                 /\ messages[1] = [role |-> "system", content |-> system_prompt]
                 /\ \A j \in 1..Len(kept) : messages[j + 1] = kept[j]
                 /\ messages[Len(messages)] = [role |-> "user", content |-> message]

\* a call with a history of more than five turns reached the model
C12_Witness ==
    /\ pc = "done" /\ endpoint = "generate_sql_query"
    /\ Len(history) > 5
    /\ history[1] # history[Len(history) - 4]
    /\ Len(modelLog) = 1
    /\ Len(modelLog[1].messages) = 7

(***************************************************************************)
(* Claims on the normalisation of the generated statement                  *)
(***************************************************************************)
\* C13: the normalisation is idempotent for one user message: applied to the
\* statement it returned, it returns that statement unchanged.
C13_NormalizationIdempotent ==
    (pc = "done" /\ endpoint = "normalize") => ret = Some(Returned(sqlIn))

\* the literal is ordinary text: not purely numeric and free of the keywords
\* that mark a subquery fragment
OrdinaryText(literal) ==
    ~IsNumericLiteral(literal) /\ ~ContainsAny(Upper(literal), SubqueryKeywords)

\* C14: an equality between a column reference and an ordinary text literal
\* in the WHERE span comes out as LOWER(<column>) = LOWER('<literal>') with
\* the whole column reference wrapped, whether the reference is bare,
\* alias-qualified or bracketed.
C14_EqualityWrapsWholeColumn ==
    (pc = "done" /\ endpoint = "make_case_insensitive")
        => \A h \in StatementHeads, c \in ColumnRefs, l \in TextLiterals, t \in StatementTails :
             (OrdinaryText(l) /\ sqlIn = WhereStatement(h, EqualsCondition(c, l), t))
                 => ret = Some(WhereStatement(h, "LOWER(" \o c \o ") = LOWER('" \o l \o "')", t))

\* C15: a membership test over quoted literals comes out as
\* LOWER(<column>) IN (LOWER('v1'), ..., LOWER('vn')), the literals kept in
\* number and order.
C15_InListLowersEveryLiteral ==
    (pc = "done" /\ endpoint = "make_case_insensitive")
        => \A h \in StatementHeads, vs \in InLists, t \in StatementTails :
             sqlIn = WhereStatement(h, InCondition("name", vs), t)
                 => ret = Some(WhereStatement(h, "LOWER(name) IN (" \o LoweredList(vs) \o ")", t))

\* C16: a TOP 100 right after SELECT is kept exactly when the user message
\* holds "100" or "hundred", and stripped otherwise.
C16_Top100KeptIffMessageNamesHundred ==
    (pc = "once" /\ endpoint = "normalize" /\ StartsWith(sqlIn, "SELECT TOP 100 "))
        => /\ ~ret[1].raised
           /\ StartsWith(ret[1].value[1], "SELECT TOP 100 ")
                <=> ContainsAny(Lower(message), {"100", "hundred"})

(***************************************************************************)
(* Claims on the row limit and the count of execute_sql_query              *)
(***************************************************************************)
\* C17: for an accepted statement without a TOP clause and a limit above
\* zero, the primary statement sent to the store is the statement with
\* TOP <limit> inserted right after its first SELECT; letters TOP inside an
\* identifier or a string literal are no TOP clause.
C17_LimitInsertedWithoutTopClause ==
    (/\ pc = "done" /\ endpoint = "execute_sql_query"
     /\ Len(dbLog) = 2 /\ limit > 0 /\ TopLimit(sqlIn) = None)
        => dbLog[2] = SubFirstSelect(Replace(sqlIn, "ILIKE", "LIKE"),
                                     "SELECT TOP " \o ToString(limit))

\* C18: with a limit above zero, execute_sql_query returns at most limit
\* rows, also for a statement that carries a TOP n of its own with n > limit.
C18_RowsWithinLimit ==
    (pc = "done" /\ endpoint = "execute_sql_query" /\ limit > 0 /\ result[1] # None)
        => result[1][1] <= limit

\* C20: when the COUNT wrapper fails, the primary statement is executed all
\* the same, and when it succeeds the call returns its rows with no error and
\* no total count.
C20_CountFailureLeavesPrimary ==
    (/\ pc = "done" /\ endpoint = "execute_sql_query"
     /\ dbErrors # <<>> /\ dbErrors[1] = dbLog[1])
        => /\ Len(dbLog) = 2
           /\ Len(dbErrors) = 1 => (result[1] # None /\ result[2] = None /\ result[3] = None)

C20_Witness ==
    /\ pc = "done" /\ endpoint = "execute_sql_query"
    /\ Len(dbLog) = 2 /\ dbErrors = <<dbLog[1]>>
    /\ result[1] # None /\ result[1][1] > 0 /\ result[3] = None

\* C19: the chat response sets has_more_records only when rows exist beyond
\* those returned; a request without a limit that got every row back has
\* has_more_records false and is not told that only 1,000 rows are shown.
C19_HasMoreOnlyWhenRowsRemain ==
    (pc = "done" /\ endpoint = "chat" /\ result[1] # None)
        => /\ (ret[1].has_more_records /\ result[3] # None) => result[3][1] > result[1][1]
           /\ limit = 0 => (~ret[1].has_more_records /\ ret[1].message # "showing_1000")

(***************************************************************************)
(* Claims on the outcomes of execute_sql_query and on the safety gate      *)
(***************************************************************************)
(***************************************************************************)
(* Table selection: select_table, get_selected_table, get_table_schema and *)
(* delete_excel_table served one after another by the event loop           *)
(***************************************************************************)
MaxRequests == 3

Sessions == {"s1", "s2"}

\* names a client may send: a base table that was also uploaded, an uploaded
\* table, a table the application database does not hold
TableNames == {"brands", "uploads", "nosuch"}

\* the names main.py binds from schema_service (line 14); the handler of
\* delete_excel_table reads selected_table_name in main's own namespace
MainGlobals == {"get_table_schema", "set_selected_table", "get_selected_table"}

\* check_table_exists: False also when the application database fails
check_table_exists(table_name, tables, dbOk) == dbOk /\ table_name \in tables

\* Python truth of an optional string
Truthy(v) == v # None /\ v # Some("")

\* select_table: the new selection and the response
select_table(table_name, selected, tables, dbOk) ==
    IF Truthy(table_name)
    THEN IF ~check_table_exists(table_name[1], tables, dbOk)
         THEN [selected |-> selected, status |-> 404, body |-> Some("Table not found")]
         ELSE [selected |-> table_name, status |-> 200, body |-> table_name]
    ELSE [selected |-> None, status |-> 200, body |-> None]

\* delete_excel_table: the committed metadata and tables, the selection that
\* schema_service holds, and the response
delete_excel_table(table_name, selected, recorded, tables, dbOk) ==
    IF ~dbOk
    THEN [excel |-> recorded, tables |-> tables, selected |-> selected, status |-> 500,
          committed |-> FALSE]
    ELSE IF table_name \notin recorded
    THEN [excel |-> recorded, tables |-> tables, selected |-> selected, status |-> 404,
          committed |-> FALSE]
    ELSE IF "selected_table_name" \notin MainGlobals
    THEN \* NameError at line 1068, before the commit of line 1071
         [excel |-> recorded, tables |-> tables, selected |-> selected, status |-> 500,
          committed |-> FALSE]
    ELSE [excel |-> recorded \ {table_name}, tables |-> tables \ {table_name},
          selected |-> selected, status |-> 200, committed |-> TRUE]

InitSchema ==
    /\ pc = "serving"
    /\ endpoint = "none"
    /\ sqlIn = ""
    /\ limit = 0
    /\ message = ""
    /\ completion = ""
    /\ ret = None
    /\ schemaCalls = 0
    /\ modelCalls = 0
    /\ conns = 0
    /\ dbLog = <<>>
    /\ result = <<None, None, None>>
    /\ chatStore = <<>>
    /\ requestModel = ""
    /\ history = <<>>
    /\ modelLog = <<>>
    /\ dbErrors = <<>>
    /\ connsClosed = 0
    /\ schemaLog = <<>>
    /\ selected_table_name = None
    /\ excel_tables = {"brands", "uploads"}
    /\ public_tables \in {{"brands", "uploads"}, {"brands"}}
    /\ request = None
    /\ served = 0
    /\ selectedBy = None
    /\ active_tokens = <<>>
    /\ now = 0
    /\ issued = 0
    /\ tokenIssuedAt = <<>>
    /\ loggedOut = {}
    /\ gcu = None
    /\ is_read_only = None
    /\ schemaDb = SchemaUp

SelectTable ==
    /\ pc = "serving"
    /\ served < MaxRequests
    /\ \E s \in Sessions, t \in {None, Some("")} \cup {Some(n) : n \in TableNames},
          dbOk \in BOOLEAN :
         /\ selected_table_name' = select_table(t, selected_table_name, public_tables, dbOk).selected
         /\ ret' = Some(select_table(t, selected_table_name, public_tables, dbOk))
         /\ selectedBy' = IF select_table(t, selected_table_name, public_tables, dbOk).status = 200
                          THEN Some(s) ELSE selectedBy
         /\ request' = Some([op |-> "select_table", by |-> s, arg |-> t, dbOk |-> dbOk])
    /\ served' = served + 1
    /\ endpoint' = "select_table"
    /\ schemaCalls' = 0
    /\ schemaLog' = <<>>
    /\ UNCHANGED <<pc, sqlIn, limit, message, completion, modelCalls, conns, dbLog,
                   result, chatStore, requestModel, history, modelLog, dbErrors, connsClosed,
                   excel_tables, public_tables>>
    /\ UNCHANGED <<active_tokens, now, issued, tokenIssuedAt, loggedOut, gcu>>
    /\ UNCHANGED <<is_read_only>>
    /\ UNCHANGED <<schemaDb>>

GetSelectedTable ==
    /\ pc = "serving"
    /\ served < MaxRequests
    /\ \E s \in Sessions :
         request' = Some([op |-> "get_selected_table", by |-> s, arg |-> None, dbOk |-> TRUE])
    /\ ret' = Some([selected |-> selected_table_name, status |-> 200, body |-> selected_table_name])
    /\ served' = served + 1
    /\ endpoint' = "get_selected_table"
    /\ schemaCalls' = 0
    /\ schemaLog' = <<>>
    /\ UNCHANGED <<pc, sqlIn, limit, message, completion, modelCalls, conns, dbLog,
                   result, chatStore, requestModel, history, modelLog, dbErrors, connsClosed,
                   selected_table_name, excel_tables, public_tables, selectedBy>>
    /\ UNCHANGED <<active_tokens, now, issued, tokenIssuedAt, loggedOut, gcu>>
    /\ UNCHANGED <<is_read_only>>
    /\ UNCHANGED <<schemaDb>>

\* a request of any session that reads the schema, as chat does through
\* generate_sql_query
GetTableSchema ==
    /\ pc = "serving"
    /\ served < MaxRequests
    /\ \E s \in Sessions, db \in SchemaOutcomes :
         /\ schemaDb' = db
         /\ schemaLog' = <<get_table_schema(selected_table_name, BaseTables, db)>>
         /\ request' = Some([op |-> "get_table_schema", by |-> s, arg |-> None,
                             dbOk |-> db.connect /\ db.ok])
    /\ served' = served + 1
    /\ schemaCalls' = 1
    /\ endpoint' = "get_table_schema"
    /\ UNCHANGED <<pc, sqlIn, limit, message, completion, ret, modelCalls, conns, dbLog,
                   result, chatStore, requestModel, history, modelLog, dbErrors, connsClosed,
                   selected_table_name, excel_tables, public_tables, selectedBy>>
    /\ UNCHANGED <<active_tokens, now, issued, tokenIssuedAt, loggedOut, gcu>>
    /\ UNCHANGED <<is_read_only>>

DeleteExcelTable ==
    /\ pc = "serving"
    /\ served < MaxRequests
    /\ \E s \in Sessions, t \in TableNames, dbOk \in BOOLEAN :
         /\ excel_tables' = delete_excel_table(t, selected_table_name, excel_tables, public_tables, dbOk).excel
         /\ public_tables' = delete_excel_table(t, selected_table_name, excel_tables, public_tables, dbOk).tables
         /\ selected_table_name' = delete_excel_table(t, selected_table_name, excel_tables, public_tables, dbOk).selected
         /\ ret' = Some(delete_excel_table(t, selected_table_name, excel_tables, public_tables, dbOk))
         /\ request' = Some([op |-> "delete_excel_table", by |-> s, arg |-> Some(t), dbOk |-> dbOk])
    /\ served' = served + 1
    /\ endpoint' = "delete_excel_table"
    /\ schemaCalls' = 0
    /\ schemaLog' = <<>>
    /\ UNCHANGED <<pc, sqlIn, limit, message, completion, modelCalls, conns, dbLog,
                   result, chatStore, requestModel, history, modelLog, dbErrors, connsClosed,
                   selectedBy>>
    /\ UNCHANGED <<active_tokens, now, issued, tokenIssuedAt, loggedOut, gcu>>
    /\ UNCHANGED <<is_read_only>>
    /\ UNCHANGED <<schemaDb>>

NextSchema == SelectTable \/ GetSelectedTable \/ GetTableSchema \/ DeleteExcelTable

SpecSchema == InitSchema /\ [][NextSchema]_vars

(***************************************************************************)
(* Authentication: login, logout, verify_auth and the passing of time      *)
(***************************************************************************)
MaxTokens == 2

MaxClock == 26

\* timedelta(hours=24)
TokenLifetime == 24

\* the clock advances by half a day, or by an hour more
TickSteps == {12, 13}

\* the environment's credentials
AUTH_EMAIL == "Admin@corp.io "

AUTH_PASSWORD == "secret"

VALID_CREDENTIALS == [e \in {Strip(Lower(AUTH_EMAIL))} |-> AUTH_PASSWORD]

LoginEmails == {"admin@corp.io", " Admin@Corp.io", "eve@corp.io"}

LoginPasswords == {"secret", "Secret"}

\* generate_token: a token no earlier call returned
generate_token(n) == "tok" \o ToString(n + 1)

Headers ==
    {None, Some("tok1"), Some("Bearer forged")}
        \cup {Some("Bearer " \o generate_token(n)) : n \in 0..(MaxTokens - 1)}

\* the token of an Authorization header, None for a missing or malformed header
BearerToken(authorization) ==
    IF authorization = None \/ authorization = Some("") THEN None
    ELSE IF ~StartsWith(authorization[1], "Bearer ") THEN None
    ELSE Some(Replace(authorization[1], "Bearer ", ""))

\* del active_tokens[token]
Without(tokens, token) == [t \in DOMAIN tokens \ {token} |-> tokens[t]]

\* active_tokens[token] = data
With(tokens, token, data) ==
    [t \in DOMAIN tokens \cup {token} |-> IF t = token THEN data ELSE tokens[t]]

\* verify_token treating a token as expired from its deadline on
verify_token_ExpiresAtDeadline(token, tokens, clock) ==
    IF token \notin DOMAIN tokens THEN [ok |-> FALSE, tokens |-> tokens]
    ELSE IF clock >= tokens[token].expires_at
    THEN [ok |-> FALSE, tokens |-> Without(tokens, token)]
    ELSE [ok |-> TRUE, tokens |-> tokens]

\* verify_token run without interruption: its verdict and the table it leaves
verify_token(token, tokens, clock) ==
    IF token \notin DOMAIN tokens THEN [ok |-> FALSE, tokens |-> tokens]
    ELSE IF clock > tokens[token].expires_at
    THEN [ok |-> FALSE, tokens |-> Without(tokens, token)]
    ELSE [ok |-> TRUE, tokens |-> tokens]

\* login: the response and the table it leaves; n tokens were generated before
login(email, password, tokens, clock, n) ==
    IF Strip(Lower(email)) \notin DOMAIN VALID_CREDENTIALS
    THEN [status |-> 401, token |-> None, tokens |-> tokens]
    ELSE IF VALID_CREDENTIALS[Strip(Lower(email))] # password
    THEN [status |-> 401, token |-> None, tokens |-> tokens]
    ELSE [status |-> 200, token |-> Some(generate_token(n)),
          tokens |-> With(tokens, generate_token(n),
                          [email |-> Strip(Lower(email)), created_at |-> clock,
                           expires_at |-> clock + TokenLifetime])]

\* logout: the response and the table it leaves
logout(authorization, tokens) ==
    IF BearerToken(authorization) = None THEN [status |-> 401, tokens |-> tokens]
    ELSE IF BearerToken(authorization)[1] \in DOMAIN tokens
    THEN [status |-> 200, tokens |-> Without(tokens, BearerToken(authorization)[1])]
    ELSE [status |-> 200, tokens |-> tokens]

\* verify_auth: the response and the table it leaves
verify_auth(authorization, tokens, clock) ==
    IF BearerToken(authorization) = None
    THEN [authenticated |-> FALSE, email |-> None, tokens |-> tokens]
    ELSE IF verify_token(BearerToken(authorization)[1], tokens, clock).ok
    THEN [authenticated |-> TRUE,
          email |-> Some(tokens[BearerToken(authorization)[1]].email), tokens |-> tokens]
    ELSE [authenticated |-> FALSE, email |-> None,
          tokens |-> verify_token(BearerToken(authorization)[1], tokens, clock).tokens]

Idle == [pc |-> "idle", token |-> None, token_data |-> None, out |-> None]

InitAuth ==
    /\ pc = "serving"
    /\ endpoint = "none"
    /\ sqlIn = ""
    /\ limit = 0
    /\ message = ""
    /\ completion = ""
    /\ ret = None
    /\ schemaCalls = 0
    /\ modelCalls = 0
    /\ conns = 0
    /\ dbLog = <<>>
    /\ result = <<None, None, None>>
    /\ chatStore = <<>>
    /\ requestModel = ""
    /\ history = <<>>
    /\ modelLog = <<>>
    /\ dbErrors = <<>>
    /\ connsClosed = 0
    /\ schemaLog = <<>>
    /\ selected_table_name = None
    /\ excel_tables = {}
    /\ public_tables = {}
    /\ request = None
    /\ served = 0
    /\ selectedBy = None
    /\ active_tokens = <<>>
    /\ now = 0
    /\ issued = 0
    /\ tokenIssuedAt = <<>>
    /\ loggedOut = {}
    /\ gcu = Idle
    /\ is_read_only = None
    /\ schemaDb = SchemaUp

Login ==
    /\ pc = "serving"
    /\ issued < MaxTokens
    /\ \E email \in LoginEmails, password \in LoginPasswords :
         \E r \in {login(email, password, active_tokens, now, issued)} :
            /\ request' = Some([op |-> "login", arg |-> <<email, password>>])
            /\ ret' = Some(r)
            /\ active_tokens' = r.tokens
            /\ issued' = IF r.status = 200 THEN issued + 1 ELSE issued
            /\ tokenIssuedAt' = IF r.status = 200 THEN With(tokenIssuedAt, r.token[1], now)
                                ELSE tokenIssuedAt
    /\ endpoint' = "login"
    /\ UNCHANGED <<pc, sqlIn, limit, message, completion, schemaCalls, modelCalls, conns, dbLog,
                   result, chatStore, requestModel, history, modelLog, dbErrors, connsClosed,
                   schemaLog, selected_table_name, excel_tables, public_tables, served,
                   selectedBy, now, loggedOut, gcu>>
    /\ UNCHANGED <<is_read_only>>
    /\ UNCHANGED <<schemaDb>>

Logout ==
    /\ pc = "serving"
    /\ \E authorization \in Headers :
         \E r \in {logout(authorization, active_tokens)}, t \in {BearerToken(authorization)} :
            /\ request' = Some([op |-> "logout", arg |-> authorization])
            /\ ret' = Some(r)
            /\ active_tokens' = r.tokens
            /\ loggedOut' = IF t # None /\ t[1] \in DOMAIN tokenIssuedAt
                            THEN loggedOut \cup {t[1]} ELSE loggedOut
    /\ endpoint' = "logout"
    /\ UNCHANGED <<pc, sqlIn, limit, message, completion, schemaCalls, modelCalls, conns, dbLog,
                   result, chatStore, requestModel, history, modelLog, dbErrors, connsClosed,
                   schemaLog, selected_table_name, excel_tables, public_tables, served,
                   selectedBy, now, issued, tokenIssuedAt, gcu>>
    /\ UNCHANGED <<is_read_only>>
    /\ UNCHANGED <<schemaDb>>

VerifyAuth ==
    /\ pc = "serving"
    /\ \E authorization \in Headers :
         \E r \in {verify_auth(authorization, active_tokens, now)} :
            /\ request' = Some([op |-> "verify_auth", arg |-> authorization])
            /\ ret' = Some(r)
            /\ active_tokens' = r.tokens
    /\ endpoint' = "verify_auth"
    /\ UNCHANGED <<pc, sqlIn, limit, message, completion, schemaCalls, modelCalls, conns, dbLog,
                   result, chatStore, requestModel, history, modelLog, dbErrors, connsClosed,
                   schemaLog, selected_table_name, excel_tables, public_tables, served,
                   selectedBy, now, issued, tokenIssuedAt, loggedOut, gcu>>
    /\ UNCHANGED <<is_read_only>>
    /\ UNCHANGED <<schemaDb>>

Tick ==
    /\ pc = "serving"
    /\ \E d \in TickSteps :
         /\ now + d <= MaxClock
         /\ now' = now + d
    /\ UNCHANGED <<pc, sqlIn, limit, message, completion, endpoint, ret, schemaCalls, modelCalls,
                   conns, dbLog, result, chatStore, requestModel, history, modelLog, dbErrors,
                   connsClosed, schemaLog, selected_table_name, excel_tables, public_tables,
                   request, served, selectedBy, active_tokens, issued, tokenIssuedAt,
                   loggedOut, gcu>>
    /\ UNCHANGED <<is_read_only>>
    /\ UNCHANGED <<schemaDb>>

NextAuth == Login \/ Logout \/ VerifyAuth \/ Tick

SpecAuth == InitAuth /\ [][NextAuth]_vars

(***************************************************************************)
(* get_current_user in a worker thread: each evaluation that touches       *)
(* active_tokens is one step, and requests served by the event loop may    *)
(* come between two steps                                                  *)
(***************************************************************************)
NotAuthenticated == [status |-> 401, email |-> None, error |-> None]

KeyError == [status |-> 500, email |-> None, error |-> Some("KeyError")]

\* get_current_user is called: the header test and the replace
GcuCall ==
    /\ pc = "serving"
    /\ gcu.pc \in {"idle", "returned"}
    /\ \E authorization \in Headers :
         gcu' = IF BearerToken(authorization) = None
                THEN [pc |-> "returned", token |-> None, token_data |-> None,
                      out |-> Some(NotAuthenticated)]
                ELSE [pc |-> "member", token |-> BearerToken(authorization),
                      token_data |-> None, out |-> None]
    /\ UNCHANGED <<pc, sqlIn, limit, message, completion, endpoint, ret, schemaCalls, modelCalls,
                   conns, dbLog, result, chatStore, requestModel, history, modelLog, dbErrors,
                   connsClosed, schemaLog, selected_table_name, excel_tables, public_tables,
                   request, served, selectedBy, now, issued, tokenIssuedAt, loggedOut, active_tokens>>
    /\ UNCHANGED <<is_read_only>>
    /\ UNCHANGED <<schemaDb>>

\* verify_token: if token not in active_tokens: return False
VtMember ==
    /\ pc = "serving"
    /\ gcu.pc = "member"
    /\ gcu' = IF gcu.token[1] \notin DOMAIN active_tokens
              THEN [gcu EXCEPT !.pc = "returned", !.out = Some(NotAuthenticated)]
              ELSE [gcu EXCEPT !.pc = "lookup"]
    /\ UNCHANGED <<pc, sqlIn, limit, message, completion, endpoint, ret, schemaCalls, modelCalls,
                   conns, dbLog, result, chatStore, requestModel, history, modelLog, dbErrors,
                   connsClosed, schemaLog, selected_table_name, excel_tables, public_tables,
                   request, served, selectedBy, now, issued, tokenIssuedAt, loggedOut, active_tokens>>
    /\ UNCHANGED <<is_read_only>>
    /\ UNCHANGED <<schemaDb>>

\* verify_token: token_data = active_tokens[token]
VtLookup ==
    /\ pc = "serving"
    /\ gcu.pc = "lookup"
    /\ gcu' = IF gcu.token[1] \notin DOMAIN active_tokens
              THEN [gcu EXCEPT !.pc = "returned", !.out = Some(KeyError)]
              ELSE [gcu EXCEPT !.pc = "expiry", !.token_data = Some(active_tokens[gcu.token[1]])]
    /\ UNCHANGED <<pc, sqlIn, limit, message, completion, endpoint, ret, schemaCalls, modelCalls,
                   conns, dbLog, result, chatStore, requestModel, history, modelLog, dbErrors,
                   connsClosed, schemaLog, selected_table_name, excel_tables, public_tables,
                   request, served, selectedBy, now, issued, tokenIssuedAt, loggedOut, active_tokens>>
    /\ UNCHANGED <<is_read_only>>
    /\ UNCHANGED <<schemaDb>>

\* verify_token: if datetime.now() > token_data["expires_at"]
VtExpiry ==
    /\ pc = "serving"
    /\ gcu.pc = "expiry"
    /\ gcu' = IF now > gcu.token_data[1].expires_at
              THEN [gcu EXCEPT !.pc = "del"]
              ELSE [gcu EXCEPT !.pc = "email"]
    /\ UNCHANGED <<pc, sqlIn, limit, message, completion, endpoint, ret, schemaCalls, modelCalls,
                   conns, dbLog, result, chatStore, requestModel, history, modelLog, dbErrors,
                   connsClosed, schemaLog, selected_table_name, excel_tables, public_tables,
                   request, served, selectedBy, now, issued, tokenIssuedAt, loggedOut, active_tokens>>
    /\ UNCHANGED <<is_read_only>>
    /\ UNCHANGED <<schemaDb>>

\* verify_token: del active_tokens[token]; return False
VtDel ==
    /\ pc = "serving"
    /\ gcu.pc = "del"
    /\ IF gcu.token[1] \notin DOMAIN active_tokens
       THEN /\ gcu' = [gcu EXCEPT !.pc = "returned", !.out = Some(KeyError)]
            /\ UNCHANGED active_tokens
       ELSE /\ gcu' = [gcu EXCEPT !.pc = "returned", !.out = Some(NotAuthenticated)]
            /\ active_tokens' = Without(active_tokens, gcu.token[1])
    /\ UNCHANGED <<pc, sqlIn, limit, message, completion, endpoint, ret, schemaCalls, modelCalls,
                   conns, dbLog, result, chatStore, requestModel, history, modelLog, dbErrors,
                   connsClosed, schemaLog, selected_table_name, excel_tables, public_tables,
                   request, served, selectedBy, now, issued, tokenIssuedAt, loggedOut>>
    /\ UNCHANGED <<is_read_only>>
    /\ UNCHANGED <<schemaDb>>

\* get_current_user: return active_tokens[token]["email"]
GcuEmail ==
    /\ pc = "serving"
    /\ gcu.pc = "email"
    /\ gcu' = IF gcu.token[1] \notin DOMAIN active_tokens
              THEN [gcu EXCEPT !.pc = "returned", !.out = Some(KeyError)]
              ELSE [gcu EXCEPT !.pc = "returned",
                               !.out = Some([status |-> 200,
                                             email |-> Some(active_tokens[gcu.token[1]].email),
                                             error |-> None])]
    /\ UNCHANGED <<pc, sqlIn, limit, message, completion, endpoint, ret, schemaCalls, modelCalls,
                   conns, dbLog, result, chatStore, requestModel, history, modelLog, dbErrors,
                   connsClosed, schemaLog, selected_table_name, excel_tables, public_tables,
                   request, served, selectedBy, now, issued, tokenIssuedAt, loggedOut, active_tokens>>
    /\ UNCHANGED <<is_read_only>>
    /\ UNCHANGED <<schemaDb>>

get_current_user == GcuCall \/ VtMember \/ VtLookup \/ VtExpiry \/ VtDel \/ GcuEmail

NextAuthThreads == NextAuth \/ get_current_user

SpecAuthThreads == InitAuth /\ [][NextAuthThreads]_vars

\* C21: execute_sql_query hands every failure back in its result: exactly
\* one of data and error is set, and a failure while connecting, executing
\* or fetching gives (None, "SQL execution error: ...", None).
C21_FailuresReturnedAsErrorTriple ==
    (pc = "done" /\ endpoint = "execute_sql_query")
        => /\ (result[1] = None) # (result[2] = None)
           /\ (is_read_only = Some(TRUE) /\ result[1] = None)
                => /\ StartsWith(result[2][1], "SQL execution error: ")
                   /\ result[3] = None

C21_Witness ==
    /\ pc = "done" /\ endpoint = "execute_sql_query"
    /\ Len(dbErrors) >= 1 /\ dbErrors[Len(dbErrors)] = dbLog[2]
    /\ result = <<None, Some("SQL execution error: database error"), None>>

\* the text with its single-quoted string literals taken out
RECURSIVE OutsideLiterals(_, _)
OutsideLiterals(s, inside) ==
    IF s = "" THEN ""
    ELSE IF Ch(s, 1) = "'" THEN OutsideLiterals(From(s, 2), ~inside)
    ELSE (IF inside THEN "" ELSE SubSeq(s, 1, 1)) \o OutsideLiterals(From(s, 2), inside)

MultipleStatementsError ==
    Some("Multiple statements are not allowed. You have read-only access to the database.")

\* C24: for a text whose string literals are all closed, the multi-statement
\* rejection fires exactly when more than one semicolon stands outside the
\* string literals.
C24_MultiStatementCountsCodeSemicolons ==
    (/\ pc = "done" /\ endpoint = "execute_sql_query"
     /\ GateStartOk(Upper(Strip(sqlIn)))
     /\ CountChar(sqlIn, "'") % 2 = 0
     /\ FirstDangerous(Upper(GateStripComments(sqlIn))) = 0)
        => (result[2] = MultipleStatementsError
                <=> CountChar(OutsideLiterals(sqlIn, FALSE), ";") > 1)

\* C25: the starts-with-SELECT test is applied to the text with its
\* comments removed: a text whose comment-stripped, trimmed, upper-cased form
\* starts with SELECT passes the test, any other text is rejected by it.
C25_StartTestOnCommentStrippedText ==
    (pc = "done" /\ endpoint = "execute_sql_query")
        => (result[2] = Some("Only SELECT queries are allowed. You have read-only access to the database.")
                <=> ~StartsWith(Upper(Strip(GateStripComments(sqlIn))), "SELECT"))

(***************************************************************************)
(* Claims on the conversation store                                        *)
(***************************************************************************)
\* C29: a chat request that saved its user message has saved exactly one
\* assistant message after it when it responds, on every path.
C29_AssistantMessageAlwaysSaved ==
    (pc = "done" /\ endpoint = "chat" /\ chatStore # <<>>)
        => chatStore = <<"user", "assistant">>

\* C22: every connection to the business-data store that a chat request
\* opens, in get_table_schema or in execute_sql_query, has been closed when
\* the request returns, on the error paths too.
C22_EveryConnectionClosed ==
    (pc = "done" /\ endpoint = "chat")
        => /\ connsClosed = conns
           /\ \A i \in 1..Len(schemaLog) : schemaLog[i].closed = schemaLog[i].opened

\* C23: when get_table_schema returned the empty descriptor, generate_sql_query
\* makes no model call and returns no SQL statement.
C23_EmptySchemaStopsGeneration ==
    (pc = "done" /\ endpoint = "generate_sql_query"
     /\ \E i \in 1..Len(schemaLog) : schemaLog[i].tables = {})
        => /\ modelCalls = 0
           /\ ret[1].raised \/ ret[1].value = None

\* C26: the table selection is one value for the whole process. Whoever set
\* it, a get_table_schema call made while it names table t returns a
\* descriptor with no table other than t; while nothing is selected, a call
\* whose catalogue queries succeed returns every base table; and the selection
\* changes only in a select_table request.
C26_SelectionIsProcessWide ==
    [][/\ (endpoint' = "get_table_schema" /\ served' # served)
            => /\ Truthy(selected_table_name)
                    => schemaLog'[1].tables \subseteq {selected_table_name[1]}
               /\ (~Truthy(selected_table_name) /\ ~schemaLog'[1].failed)
                    => schemaLog'[1].tables = BaseTables
       /\ (selected_table_name' # selected_table_name) => endpoint' = "select_table"]_vars

C26_Witness ==
    /\ served = 3
    /\ selected_table_name = Some("brands") /\ selectedBy = Some("s1")
    /\ request = Some([op |-> "get_table_schema", by |-> "s2", arg |-> None, dbOk |-> TRUE])
    /\ schemaLog = <<[opened |-> 1, closed |-> 1, failed |-> FALSE, tables |-> {"brands"}]>>

\* C27: deleting a table recorded in the excel_tables metadata, with the
\* application database reachable, answers with success, commits the removal
\* of the metadata row, and clears the selection when that table was selected.
C27_DeleteCommitsAndClearsSelection ==
    [][(/\ endpoint' = "delete_excel_table" /\ served' # served
        /\ request'[1].dbOk
        /\ request'[1].arg[1] \in excel_tables)
            => /\ ret'[1].status = 200
               /\ request'[1].arg[1] \notin excel_tables'
               /\ (selected_table_name = request'[1].arg => selected_table_name' = None)]_vars

\* C28: however the steps of a get_current_user call interleave with logout
\* requests and with the removal of the expired token by another
\* verification, the call ends with the e-mail of a token that is in the
\* table or with the 401 answer, never with a KeyError.
C28_NoKeyErrorUnderInterleaving ==
    gcu.pc = "returned" => gcu.out[1].error = None

\* the e-mail of the environment's credentials as login compares it
ValidEmail == Strip(Lower(AUTH_EMAIL))

\* an issued token that no logout named and whose 24 hours have not passed
Live(token) ==
    /\ token \in DOMAIN tokenIssuedAt
    /\ token \notin loggedOut
    /\ now <= tokenIssuedAt[token] + TokenLifetime

\* C30: in every sequence of login, logout and verify requests: a login
\* issues a token exactly when the credentials are the environment's, and a
\* failed login leaves the table as it was; a verification reports a token
\* authenticated exactly when a valid login issued it, no logout named it
\* since and the time is not past its expiry, and removes a token it finds
\* expired; a logout of a token that is not in the table succeeds and leaves
\* the table as it was.
C30_AuthenticatedIffLive ==
    [][/\ (endpoint' = "login" /\ now' = now)
            => /\ ret'[1].status = 200
                    <=> /\ Strip(Lower(request'[1].arg[1])) = ValidEmail
                        /\ request'[1].arg[2] = AUTH_PASSWORD
               /\ ret'[1].status # 200 => active_tokens' = active_tokens
       /\ (endpoint' = "verify_auth" /\ now' = now)
            => /\ ret'[1].authenticated
                    <=> /\ BearerToken(request'[1].arg) # None
                        /\ Live(BearerToken(request'[1].arg)[1])
               /\ \A t \in DOMAIN active_tokens :
                    (BearerToken(request'[1].arg) = Some(t) /\ now > active_tokens[t].expires_at)
                        => t \notin DOMAIN active_tokens'
       /\ (endpoint' = "logout" /\ now' = now /\ BearerToken(request'[1].arg) # None
           /\ BearerToken(request'[1].arg)[1] \notin DOMAIN active_tokens)
            => /\ ret'[1].status = 200
               /\ active_tokens' = active_tokens]_vars

C30_Witness ==
    /\ endpoint = "verify_auth"
    /\ request = Some([op |-> "verify_auth", arg |-> Some("Bearer tok1")])
    /\ ~ret[1].authenticated
    /\ "tok1" \in DOMAIN tokenIssuedAt /\ "tok1" \notin loggedOut
    /\ now > tokenIssuedAt["tok1"] + TokenLifetime
    /\ DOMAIN active_tokens = {"tok2"}


=============================================================================
